---- MODULE Spec2Model ----
(***************************************************************************)
(* Token lifecycle of the Wyze MCP server (src/src/auth.ts): the module    *)
(* level token pair and credentials, login, refreshToken and               *)
(* ensureValidToken, run by several asynchronous callers that interleave   *)
(* at their network awaits.                                                *)
(***************************************************************************)
EXTENDS Integers, Sequences, FiniteSets, TLC

VARIABLES
  credentials,    \* auth.ts line 30
  currentTokens,  \* auth.ts line 29
  now,            \* Date.now()
  call,           \* per caller: its ensureValidToken invocation
  ticks,          \* clock advances so far
  calls,          \* ensureValidToken invocations so far
  lastLoginResp,  \* the latest login response, where a specification records it
  env,            \* process.env: the four WYZE_* variables
  proc,           \* the server process: starting, connected or exited
  api,            \* the API operation in progress (api.ts)
  pure,           \* one evaluation of a helper function: its input and result
  tool,           \* the tool handler in progress (types.ts)
  order           \* history: the order in which authentication requests left

vars ==
  <<credentials, currentTokens, now, call, ticks, calls, lastLoginResp,
    env, proc, api, pure, tool, order>>

(* ------------------------------ bounds -------------------------------- *)

\* number of clock advances explored
MaxTicks == 2
\* number of ensureValidToken invocations explored
MaxCalls == 2
\* largest number of entries of a parameter object given to createFordSignature
MaxParams == 3

\* the slots of asynchronous callers of ensureValidToken (tool handlers in
\* flight); callers are interchangeable, and an invocation takes slot c2 only
\* while the invocation in slot c1 is waiting for a response
Callers == {"c1", "c2"}

(* --------------------------- values and inputs ------------------------ *)

\* JavaScript null and undefined
Null == [null |-> TRUE]
Undefined == "undefined"

\* an optional value: None or Some(v)
None == <<>>
Some(v) == <<v>>

\* JavaScript truthiness of a string-or-undefined value
Truthy(v) == v \notin {Undefined, ""}

\* constants.ts: 48 hours in milliseconds
TOKEN_REFRESH_INTERVAL == 48 * 60 * 60 * 1000
\* auth.ts isTokenNearExpiry: one hour in milliseconds
NearExpiryMargin == 60 * 60 * 1000

\* the credentials the process is started with
TheCredentials == [email |-> "e", password |-> "p", apiKey |-> "k", keyId |-> "i"]

\* values an environment variable takes: unset, empty, or a value
EnvValues(v) == {Undefined, "", v}

\* process.env as the server finds it at startup
Envs ==
  [WYZE_EMAIL : EnvValues("e"), WYZE_PASSWORD : EnvValues("p"),
   WYZE_API_KEY : EnvValues("k"), WYZE_KEY_ID : EnvValues("i")]

\* values the code field of a response envelope takes: the number 1, the
\* string "1", or another number
CodeNumOne == "number:1"
CodeStrOne == "string:1"
CodeOther == "number:2000"
Codes == {CodeNumOne, CodeStrOne, CodeOther}

AccessTokenValues == {Undefined, "at1", "at2"}
RefreshTokenValues == {Undefined, "rt1"}
MfaValues == {None, Some(<<>>), Some(<<"sms">>)}
MsgValues == {Undefined, "m1"}

\* the data object of a login response
LoginData ==
  [access_token : AccessTokenValues, refresh_token : RefreshTokenValues,
   mfa_options : MfaValues]

\* bodies of an HTTP-successful login response
LoginBodies ==
  [code : Codes, msg : MsgValues, access_token : AccessTokenValues,
   refresh_token : RefreshTokenValues,
   data : {None} \cup {Some(d) : d \in LoginData}]

\* what axios.post ends with: a 2xx body, an AxiosError with a response
\* status, or an AxiosError without a response (timeout, DNS, ...)
HttpErrors ==
  [kind : {"http_error"}, status : {401, 429}]
    \cup [kind : {"network"}, code : {"ECONNABORTED"}]

LoginResponses == {[kind |-> "ok", body |-> b] : b \in LoginBodies} \cup HttpErrors

\* the two formats the login endpoint answers in (auth.ts lines 81-83): the
\* token fields directly in the body, or an envelope {code, msg, data}
DirectLoginBodies == {b \in LoginBodies : b.data = None /\ b.msg = Undefined}
WrappedLoginBodies ==
  {b \in LoginBodies :
     /\ b.data # None
     /\ b.msg # Undefined
     /\ b.access_token = Undefined
     /\ b.refresh_token = Undefined}

FormattedLoginResponses ==
  {[kind |-> "ok", body |-> b] : b \in DirectLoginBodies \cup WrappedLoginBodies}
    \cup HttpErrors

\* the data object of a refresh response
RefreshData ==
  [access_token : AccessTokenValues,
   refresh_token : RefreshTokenValues]

RefreshBodies ==
  [code : Codes, data : {None} \cup {Some(d) : d \in RefreshData}]

RefreshResponses == {[kind |-> "ok", body |-> b] : b \in RefreshBodies} \cup HttpErrors

\* clock advances: one hour (the width of the near-expiry window) and 47
\* hours (from issuance to the first instant of the window)
TickSteps ==
  {NearExpiryMargin, TOKEN_REFRESH_INTERVAL - NearExpiryMargin}

(* ------------------------------ auth.ts ------------------------------- *)

IsSuccessCode(code) == code \in {CodeStrOne, CodeNumOne}

\* variant: the expiry instant itself still counts as not expired
isTokenExpired_strict(tokens, t) ==
  IF tokens = Null THEN TRUE ELSE t > tokens.expiresAt

isTokenExpired(tokens, t) ==
  IF tokens = Null THEN TRUE ELSE t >= tokens.expiresAt

\* variant: the first instant of the last hour is not yet near expiry
isTokenNearExpiry_strict(tokens, t) ==
  IF tokens = Null THEN TRUE ELSE t > tokens.expiresAt - NearExpiryMargin

\* variant: the margin is half an hour
isTokenNearExpiry_halfMargin(tokens, t) ==
  IF tokens = Null THEN TRUE ELSE t >= tokens.expiresAt - 30 * 60 * 1000

\* variant: the margin is the whole token lifetime instead of one hour
isTokenNearExpiry_wholeLife(tokens, t) ==
  IF tokens = Null THEN TRUE ELSE t >= tokens.expiresAt - TOKEN_REFRESH_INTERVAL

isTokenNearExpiry(tokens, t) ==
  IF tokens = Null THEN TRUE ELSE t >= tokens.expiresAt - NearExpiryMargin

Err(kind, by, detail) == [kind |-> kind, by |-> by, detail |-> detail]

Failed(e) == [ok |-> FALSE, error |-> e]
Stored(tokens) == [ok |-> TRUE, tokens |-> tokens]

\* variant: the data object is looked at before the top level
LoginTokens_nestedFirst(body) ==
  IF body.data # None /\ Truthy(body.data[1].access_token)
    THEN [accessToken |-> body.data[1].access_token,
          refreshToken |-> body.data[1].refresh_token]
    ELSE IF Truthy(body.access_token)
      THEN [accessToken |-> body.access_token, refreshToken |-> body.refresh_token]
      ELSE [accessToken |-> Undefined, refreshToken |-> Undefined]

\* variant: the wrapped branch reads the refresh token from the top level
LoginTokens_nestedRefreshFromTop(body) ==
  IF Truthy(body.access_token)
    THEN [accessToken |-> body.access_token, refreshToken |-> body.refresh_token]
    ELSE IF body.data # None /\ Truthy(body.data[1].access_token)
      THEN [accessToken |-> body.data[1].access_token,
            refreshToken |-> body.refresh_token]
      ELSE [accessToken |-> Undefined, refreshToken |-> Undefined]

\* login, lines 86-98: the token pair read from the body, top level first
LoginTokens(body) ==
  IF Truthy(body.access_token)
    THEN [accessToken |-> body.access_token, refreshToken |-> body.refresh_token]
    ELSE IF body.data # None /\ Truthy(body.data[1].access_token)
      THEN [accessToken |-> body.data[1].access_token,
            refreshToken |-> body.data[1].refresh_token]
      ELSE [accessToken |-> Undefined, refreshToken |-> Undefined]

\* login, line 104: data.data?.mfa_options && data.data.mfa_options.length > 0
HasMfaOptions(body) ==
  /\ body.data # None
  /\ body.data[1].mfa_options # None
  /\ Len(body.data[1].mfa_options[1]) > 0

\* login, line 110: data.msg || dataAny.message || dataAny.description ||
\* JSON.stringify(data); the bodies carry no message or description field
LoginErrorMsg(body) == IF Truthy(body.msg) THEN body.msg ELSE "JSON.stringify(data)"

\* login, lines 100-113: the error check made when no access token was found
LoginErrorCheck(body) ==
  IF ~IsSuccessCode(body.code)
    THEN IF HasMfaOptions(body)
      THEN Some(Err("MfaRequired", "login", body.data[1].mfa_options[1]))
      ELSE Some(Err("LoginFailedCode", "login", <<body.code, LoginErrorMsg(body)>>))
    ELSE None

\* login, lines 79-125: the outcome of an HTTP-successful response at time t
LoginBody(body, t) ==
  LET tok == LoginTokens(body) IN
  IF ~Truthy(tok.accessToken) /\ LoginErrorCheck(body) # None
    THEN Failed(LoginErrorCheck(body)[1])
    ELSE IF ~Truthy(tok.accessToken) \/ ~Truthy(tok.refreshToken)
      THEN Failed(Err("NoAccessToken", "login", <<>>))
      ELSE Stored([accessToken |-> tok.accessToken,
                   refreshToken |-> tok.refreshToken,
                   expiresAt |-> t + TOKEN_REFRESH_INTERVAL])

\* variant: a 401 is reported like every other failed request
LoginCatch_no401(resp) ==
  IF resp.kind = "http_error"
    THEN Failed(Err("LoginRequestFailed", "login", <<ToString(resp.status)>>))
    ELSE Failed(Err("LoginRequestFailed", "login", <<resp.code>>))

\* login, lines 126-137: an AxiosError of the request
LoginCatch(resp) ==
  IF resp.kind = "http_error" /\ resp.status = 401
    THEN Failed(Err("InvalidCredentials", "login", <<>>))
    ELSE IF resp.kind = "http_error"
      THEN Failed(Err("LoginRequestFailed", "login", <<ToString(resp.status)>>))
      ELSE Failed(Err("LoginRequestFailed", "login", <<resp.code>>))

\* login, lines 60-137: the outcome of the login request answered by resp
LoginOutcome(resp, t) ==
  IF resp.kind = "ok" THEN LoginBody(resp.body, t) ELSE LoginCatch(resp)

\* variant: the envelope code is not looked at
RefreshOutcome_noCodeCheck(resp, t) ==
  IF resp.kind # "ok" \/ resp.body.data = None
    THEN [kind |-> "fallback", via |-> "catch"]
    ELSE [kind |-> "stored",
          tokens |-> [accessToken |-> resp.body.data[1].access_token,
                      refreshToken |-> resp.body.data[1].refresh_token,
                      expiresAt |-> t + TOKEN_REFRESH_INTERVAL]]

\* variant: a refresh renews the two tokens and keeps the expiry of the pair
\* it replaces
RefreshOutcome_keepsExpiry(resp, t) ==
  IF resp.kind # "ok"
    THEN [kind |-> "fallback", via |-> "catch"]
    ELSE IF ~IsSuccessCode(resp.body.code)
      THEN [kind |-> "fallback", via |-> "code"]
      ELSE IF resp.body.data = None
        THEN [kind |-> "fallback", via |-> "catch"]
        ELSE [kind |-> "stored",
              tokens |-> [accessToken |-> resp.body.data[1].access_token,
                          refreshToken |-> resp.body.data[1].refresh_token,
                          expiresAt |-> IF currentTokens = Null
                                          THEN t + TOKEN_REFRESH_INTERVAL
                                          ELSE currentTokens.expiresAt]]

\* refreshToken, lines 175-194: the response is stored, or login is called
\* ("code": line 180, "catch": line 193)
RefreshOutcome(resp, t) ==
  IF resp.kind # "ok"
    THEN [kind |-> "fallback", via |-> "catch"]
    ELSE IF ~IsSuccessCode(resp.body.code)
      THEN [kind |-> "fallback", via |-> "code"]
      ELSE IF resp.body.data = None
        THEN [kind |-> "fallback", via |-> "catch"]
        ELSE [kind |-> "stored",
              tokens |-> [accessToken |-> resp.body.data[1].access_token,
                          refreshToken |-> resp.body.data[1].refresh_token,
                          expiresAt |-> t + TOKEN_REFRESH_INTERVAL]]

\* variant: line 180 awaits the fallback login inside the try block, so its
\* rejection lands in the catch block, which calls login again
FallbackRejectionCaught_awaited(via) == via = "code"

\* refreshToken, lines 180 and 193: `return login()` hands the login promise
\* out of the function without awaiting it, so a rejection of the fallback
\* login is not caught by the try block around line 180
FallbackRejectionCaught(via) == FALSE

\* variant: a stored pair without an access token counts as no token
EnsureReturn_needsAccessToken(tokens) ==
  IF tokens = Null \/ ~Truthy(tokens.accessToken)
    THEN [status |-> "error",
          error |-> Err("FailedToObtain", "ensureValidToken", <<>>)]
    ELSE [status |-> "ok", value |-> tokens.accessToken]

\* ensureValidToken, lines 205-209
EnsureReturn(tokens) ==
  IF tokens = Null
    THEN [status |-> "error",
          error |-> Err("FailedToObtain", "ensureValidToken", <<>>)]
    ELSE [status |-> "ok", value |-> tokens.accessToken]

\* what the awaited call resolves to: ensureValidToken (lines 205-209) the
\* access token, login (line 125) and refreshToken (line 189) the stored pair
CallReturn(op, tokens) ==
  IF op = "ensureValidToken"
    THEN EnsureReturn(tokens)
    ELSE [status |-> "ok", tokens |-> tokens]

NoResult == [status |-> "none"]
Thrown(e) == [status |-> "error", error |-> e]

\* the record of one ensureValidToken invocation
NewCall ==
  [pc |-> "idle", op |-> "ensureValidToken", startNow |-> 0, startTokens |-> Null, nLogin |-> 0,
   nRefresh |-> 0, sentRefreshToken |-> None, refreshSeen |-> None,
   loginSeen |-> None,
   refreshVia |-> "none", loginIssued |-> None, retried |-> FALSE,
   sent |-> <<>>, result |-> NoResult]

\* what a caller saw of its login response: a 2xx answer, or the AxiosError
LoginSeen(resp) == IF resp.kind = "ok" THEN [kind |-> "ok"] ELSE resp

\* what a caller saw of its refresh response: the transport outcome, the
\* envelope code and whether the envelope has a data object
RefreshSeen(resp) ==
  IF resp.kind = "ok"
    THEN [kind |-> "ok", code |-> resp.body.code, hasData |-> resp.body.data # None]
    ELSE [kind |-> resp.kind, code |-> Undefined, hasData |-> FALSE]

\* crypto.createHash("md5").update(s).digest("hex"): the digest of s, as an
\* ideal hash (different inputs, different digests): the input between two
\* symbols that occur in no input
Md5Hex(s) == <<"md5(">> \o s \o <<")">>

\* variant: two rounds of the digest
RECURSIVE HashRounds(_, _)
HashRounds(hash, n) == IF n = 0 THEN hash ELSE HashRounds(Md5Hex(hash), n - 1)

hashPassword_twoRounds(password) == HashRounds(password, 2)

\* hashPassword, auth.ts lines 20-26
hashPassword(password) == HashRounds(password, 3)

\* A value that is undefined at run time is the one-symbol value
\* <<Undefined>>: a template literal renders it as the text undefined, and
\* JSON.stringify (request body) and axios (query string) leave its entry out.
Serialize(params) == SelectSeq(params, LAMBDA e : e[2] # <<Undefined>>)

\* constants.ts line 10
AUTH_API_KEY == <<"WMXHYf79Nr5gIlt3r0r7p9Tcw5bvs6BB4U8O8nGJ">>

\* the application fields that the refresh body (auth.ts lines 154-161) and
\* the base payload (api.ts lines 33-40) share, with the values of APP_NAME,
\* APP_VER, APP_VERSION, PHONE_ID, PHONE_SYSTEM_TYPE, SC and SV
\* (constants.ts lines 14-20), ts being Date.now()
AppFields(t) ==
  <<<<<<"app_name">>, <<"com.hualai.WyzeCam">>>>,
    <<<<"app_ver">>, <<"wyze_developer_api">>>>,
    <<<<"app_version">>, <<"wyze_developer_api">>>>,
    <<<<"phone_id">>, <<"wyze_developer_api">>>>,
    <<<<"phone_system_type">>, <<"1">>>>,
    <<<<"sc">>, <<"wyze_developer_api">>>>,
    <<<<"sv">>, <<"wyze_developer_api">>>>,
    <<<<"ts">>, <<ToString(t)>>>>>>

\* the headers of both authentication requests (lines 67-72 and 163-168)
AuthHeaders(creds) ==
  Serialize(<<<<<<"Content-Type">>, <<"application/json">>>>,
              <<<<"x-api-key">>, AUTH_API_KEY>>,
              <<<<"keyid">>, <<creds.keyId>>>>,
              <<<<"apikey">>, <<creds.apiKey>>>>>>)

\* login, line 58: Date.now().toString() when the request is built; nothing
\* reads the nonce back, it is one symbol
Nonce == <<"Date.now()">>

\* variant: the password is sent as it was configured
LoginRequest_plaintext(creds) ==
  [path |-> "/api/user/login",
   body |-> Serialize(<<<<<<"email">>, <<creds.email>>>>,
                        <<<<"password">>, <<creds.password>>>>,
                        <<<<"nonce">>, Nonce>>>>),
   headers |-> AuthHeaders(creds)]

\* login, lines 57-74: the request as it leaves the client
LoginRequest(creds) ==
  [path |-> "/api/user/login",
   body |-> Serialize(<<<<<<"email">>, <<creds.email>>>>,
                        <<<<"password">>, hashPassword(<<creds.password>>)>>,
                        <<<<"nonce">>, Nonce>>>>),
   headers |-> AuthHeaders(creds)]

\* refreshToken, lines 151-170: the request as it leaves the client
RefreshRequest(refreshToken, creds, t) ==
  [path |-> "/app/user/refresh_token",
   body |-> Serialize(<<<<<<"refresh_token">>, <<refreshToken>>>>>> \o AppFields(t)),
   headers |-> AuthHeaders(creds)]

\* variant: login stores the hashed password back into the credentials
LoginCredentials_hashInPlace(creds) == [creds EXCEPT !.password = "hashed"]

\* login, lines 57-77: the credentials after the login request has been built
\* from them (they are read into the body and the headers, never written)
LoginCredentials(creds) == creds

\* variant: the `if (!credentials)` guard is missing (the request is built
\* with optional chaining)
LoginStart_noCredentialsCheck(rec) ==
  [rec EXCEPT !.pc = "awaitLogin", !.nLogin = @ + 1,
              !.sent = Append(@, LoginRequest(
                         IF credentials = Null
                           THEN [email |-> Undefined, password |-> Undefined,
                                 apiKey |-> Undefined, keyId |-> Undefined]
                           ELSE credentials))]

\* login, lines 52-77: up to the await of the request
LoginStart(rec) ==
  IF credentials = Null
    THEN [rec EXCEPT !.pc = "done",
                     !.result = Thrown(Err("CredentialsNotSet", "login", <<>>))]
    ELSE [rec EXCEPT !.pc = "awaitLogin", !.nLogin = @ + 1,
                     !.sent = Append(@, LoginRequest(credentials))]

\* variant: the `if (!currentTokens) return login()` guard is missing (the
\* refresh token is read with optional chaining)
RefreshStart_alwaysRefresh(rec) ==
  IF credentials = Null
    THEN [rec EXCEPT !.pc = "done",
                     !.result = Thrown(Err("CredentialsNotSet", "refreshToken", <<>>))]
    ELSE LET token == IF currentTokens = Null THEN Undefined
                       ELSE currentTokens.refreshToken
         IN [rec EXCEPT !.pc = "awaitRefresh", !.nRefresh = @ + 1,
                        !.sentRefreshToken = Some(token),
                        !.sent = Append(@, RefreshRequest(token, credentials, now))]

\* refreshToken, lines 141-173: up to the await of the request
RefreshStart(rec) ==
  IF currentTokens = Null
    THEN LoginStart(rec)
    ELSE IF credentials = Null
      THEN [rec EXCEPT !.pc = "done",
                       !.result = Thrown(Err("CredentialsNotSet", "refreshToken", <<>>))]
      ELSE [rec EXCEPT !.pc = "awaitRefresh", !.nRefresh = @ + 1,
                       !.sentRefreshToken = Some(currentTokens.refreshToken),
                       !.sent = Append(@, RefreshRequest(currentTokens.refreshToken,
                                                         credentials, now))]

\* variant: the last of the four checks is missing
initAuthFromEnv_noKeyIdCheck(e) ==
  IF ~Truthy(e.WYZE_EMAIL) THEN [ok |-> FALSE, missing |-> "WYZE_EMAIL"]
  ELSE IF ~Truthy(e.WYZE_PASSWORD) THEN [ok |-> FALSE, missing |-> "WYZE_PASSWORD"]
  ELSE IF ~Truthy(e.WYZE_API_KEY) THEN [ok |-> FALSE, missing |-> "WYZE_API_KEY"]
  ELSE [ok |-> TRUE,
        creds |-> [email |-> e.WYZE_EMAIL, password |-> e.WYZE_PASSWORD,
                   apiKey |-> e.WYZE_API_KEY, keyId |-> e.WYZE_KEY_ID]]

\* initAuthFromEnv, lines 213-233: the credentials it hands to
\* setCredentials, or the variable its error names
initAuthFromEnv(e) ==
  IF ~Truthy(e.WYZE_EMAIL) THEN [ok |-> FALSE, missing |-> "WYZE_EMAIL"]
  ELSE IF ~Truthy(e.WYZE_PASSWORD) THEN [ok |-> FALSE, missing |-> "WYZE_PASSWORD"]
  ELSE IF ~Truthy(e.WYZE_API_KEY) THEN [ok |-> FALSE, missing |-> "WYZE_API_KEY"]
  ELSE IF ~Truthy(e.WYZE_KEY_ID) THEN [ok |-> FALSE, missing |-> "WYZE_KEY_ID"]
  ELSE [ok |-> TRUE,
        creds |-> [email |-> e.WYZE_EMAIL, password |-> e.WYZE_PASSWORD,
                   apiKey |-> e.WYZE_API_KEY, keyId |-> e.WYZE_KEY_ID]]

\* the states of the server process (types.ts main)
Starting == [state |-> "start", error |-> ""]
Connected == [state |-> "connected", error |-> ""]
Exited(missing) == [state |-> "exited", error |-> missing]

(* ------------------------- strings and digests ------------------------ *)

\* A string is the sequence of its characters. A URL path, a secret, a token
\* or a timestamp that is never taken apart is one symbol of such a sequence.

\* the characters that occur in parameter names and values, in ascending
\* order of their UTF-16 code unit
CharOrder ==
  <<"&", "1", "2", "=", "_", "a", "b", "c", "d", "e", "f", "g", "h", "i", "j",
    "k", "l", "m", "n", "o", "p", "q", "r", "s", "t", "u", "v", "w", "x", "y",
    "z">>

Rank(ch) == CHOOSE i \in 1..Len(CharOrder) : CharOrder[i] = ch

\* s < t as JavaScript compares strings: by code unit, a proper prefix first
RECURSIVE StrLess(_, _)
StrLess(s, t) ==
  IF s = <<>> THEN t # <<>>
  ELSE IF t = <<>> THEN FALSE
  ELSE IF Head(s) = Head(t) THEN StrLess(Tail(s), Tail(t))
  ELSE Rank(Head(s)) < Rank(Head(t))

LowerLetters ==
  <<"a", "b", "c", "d", "e", "f", "g", "h", "i", "j", "k", "l", "m", "n", "o",
    "p", "q", "r", "s", "t", "u", "v", "w", "x", "y", "z">>
UpperLetters ==
  <<"A", "B", "C", "D", "E", "F", "G", "H", "I", "J", "K", "L", "M", "N", "O",
    "P", "Q", "R", "S", "T", "U", "V", "W", "X", "Y", "Z">>

\* String.prototype.toUpperCase
toUpperCase(str) ==
  [i \in 1..Len(str) |->
     IF \E n \in 1..Len(LowerLetters) : LowerLetters[n] = str[i]
       THEN UpperLetters[CHOOSE n \in 1..Len(LowerLetters) : LowerLetters[n] = str[i]]
       ELSE str[i]]

\* Array.prototype.join
RECURSIVE Join(_, _)
Join(parts, sep) ==
  IF parts = <<>> THEN <<>>
  ELSE IF Len(parts) = 1 THEN parts[1]
  ELSE parts[1] \o sep \o Join(Tail(parts), sep)

\* a sequence without its i-th element
RemoveAt(seq, i) == [j \in 1..(Len(seq) - 1) |-> IF j < i THEN seq[j] ELSE seq[j + 1]]

\* variant: the keys stay in insertion order
SortKeys_insertionOrder(ks) == ks

\* Array.prototype.sort without a comparator, on strings
RECURSIVE SortKeys(_)
SortKeys(ks) ==
  IF ks = <<>> THEN <<>>
  ELSE LET m == CHOOSE i \in 1..Len(ks) : \A j \in 1..Len(ks) : ~StrLess(ks[j], ks[i])
       IN <<ks[m]>> \o SortKeys(RemoveAt(ks, m))

(* ------------------------------ api.ts -------------------------------- *)

\* constants.ts: the lock application key and the shared secret
FORD_APP_KEY == <<"275965684684dbdaf29a0ed9">>
FORD_APP_SECRET == <<"4deekof1ba311c5c33a9cb8e12787e8c">>

\* A parameter object (Record<string, string>) is the sequence of its
\* <<name, value>> entries in insertion order, no name twice.
\* Object.keys: the names in insertion order
ObjectKeys(params) == [i \in 1..Len(params) |-> params[i][1]]

\* params[k]
ParamValue(params, k) ==
  params[CHOOSE i \in 1..Len(params) : params[i][1] = k][2]

\* the object as a mapping: the set of its entries
Entries(params) == {params[i] : i \in 1..Len(params)}

\* variant: the method is used as given and the secret comes first
SignString_secretFirst(method, path, params) ==
  LET sortedKeys == SortKeys(ObjectKeys(params))
      paramString ==
        Join([i \in 1..Len(sortedKeys) |->
                sortedKeys[i] \o <<"=">> \o ParamValue(params, sortedKeys[i])],
             <<"&">>)
  IN FORD_APP_SECRET \o method \o path \o paramString

\* createFordSignature, lines 51-53: the string that is digested
SignString(method, path, params) ==
  LET sortedKeys == SortKeys(ObjectKeys(params))
      paramString ==
        Join([i \in 1..Len(sortedKeys) |->
                sortedKeys[i] \o <<"=">> \o ParamValue(params, sortedKeys[i])],
             <<"&">>)
  IN toUpperCase(method) \o path \o paramString \o FORD_APP_SECRET

\* createFordSignature, lines 45-55 (the timestamp argument is not used)
createFordSignature(method, path, params, timestamp) ==
  Md5Hex(SignString(method, path, params))

\* the two lock endpoints
LockControlPath == <<"/openapi/lock/v1/control">>
LockInfoPath == <<"/openapi/lock/v1/info">>

\* the six operations that send a request to a device or lock endpoint
Ops ==
  {"getDeviceList", "getDeviceProperties", "setDeviceProperty",
   "runDeviceAction", "controlLock", "getLockInfo"}

\* controlLock's action argument (line 201)
LockActions == {"lock", "unlock"}

\* one invocation of an operation: its name and, for controlLock, the action
ApiInvocations ==
  {[op |-> o, action |-> None] : o \in Ops \ {"controlLock"}}
    \cup {[op |-> "controlLock", action |-> Some(a)] : a \in LockActions}

\* the envelope of a 2xx answer of a device or lock endpoint
ApiBodies == [code : Codes, msg : MsgValues]

\* an AxiosError of a device or lock request: with a response (status, body
\* msg) or without one (error.code)
ApiHttpErrors ==
  [kind : {"http_error"}, status : {401, 403, 404, 429, 500}, msg : MsgValues]
    \cup [kind : {"network"}, code : {"ECONNABORTED", "ENOTFOUND", "ERR_NETWORK"}]

ApiResponses == {[kind |-> "ok", body |-> b] : b \in ApiBodies} \cup ApiHttpErrors

\* the text before ${response.data.msg} in each operation's thrown Error
FailurePrefix(inv) ==
  CASE inv.op = "getDeviceList" -> <<"Failed to get device list: ">>
    [] inv.op = "getDeviceProperties" -> <<"Failed to get device properties: ">>
    [] inv.op = "setDeviceProperty" -> <<"Failed to set property: ">>
    [] inv.op = "runDeviceAction" -> <<"Failed to run action: ">>
    [] inv.op = "controlLock" -> <<"Failed to ", inv.action[1], " lock: ">>
    [] inv.op = "getLockInfo" -> <<"Failed to get lock info: ">>

\* an AxiosError object, as axios rejects with
AxiosError(by, resp) == [kind |-> "AxiosError", by |-> by, response |-> resp]

\* variant: only the number 1 counts as success
ApiOutcome_numericOnly(inv, resp) ==
  IF resp.kind # "ok"
    THEN Thrown(AxiosError(inv.op, resp))
    ELSE IF resp.body.code # CodeNumOne
      THEN Thrown(Err("ApiLogicalError", inv.op,
                      FailurePrefix(inv) \o <<resp.body.msg>>))
      ELSE [status |-> "ok"]

\* the six operations after their request is answered (lines 100-104, 129-133,
\* 162-164, 193-195, 230-232, 259-263): axios rejects and nothing catches it,
\* or the envelope code decides
ApiOutcome(inv, resp) ==
  IF resp.kind # "ok"
    THEN Thrown(AxiosError(inv.op, resp))
    ELSE IF ~IsSuccessCode(resp.body.code)
      THEN Thrown(Err("ApiLogicalError", inv.op,
                      FailurePrefix(inv) \o <<resp.body.msg>>))
      ELSE [status |-> "ok"]

\* error.message of the Error objects thrown by auth.ts and api.ts, as the
\* pieces of its template
ErrorMessage(e) ==
  CASE e.kind = "CredentialsNotSet" ->
         <<"Credentials not set. Call setCredentials first.">>
    [] e.kind = "MfaRequired" ->
         <<"MFA is required for this account. MFA options: ">> \o e.detail
           \o <<". MFA is not yet supported. Please disable MFA or use a different authentication method.">>
    [] e.kind = "LoginFailedCode" ->
         <<"Login failed (code ", e.detail[1], "): ", e.detail[2]>>
    [] e.kind = "NoAccessToken" -> <<"Login failed: No access token in response">>
    [] e.kind = "InvalidCredentials" ->
         <<"Invalid credentials. Please check your email, password, API key, and key ID.">>
    [] e.kind = "LoginRequestFailed" ->
         <<"Login request failed (", e.detail[1], "): ", "errorMsg">>
    [] e.kind = "FailedToObtain" -> <<"Failed to obtain access token">>
    [] e.kind = "ApiLogicalError" -> e.detail

RateLimitMessage ==
  <<"Error: Rate limit exceeded. Please wait before making more requests.">>

\* handleApiError, api.ts lines 58-85
handleApiError(error) ==
  IF error.kind = "AxiosError"
    THEN LET r == error.response IN
         IF r.kind = "http_error"
           THEN CASE r.status = 401 ->
                       <<"Error: Authentication failed. Please check your credentials.">>
                  [] r.status = 403 ->
                       <<"Error: Access denied. You may not have permission for this operation.">>
                  [] r.status = 404 ->
                       <<"Error: Resource not found. Please check the device MAC address.">>
                  [] r.status = 429 -> RateLimitMessage
                  [] OTHER ->
                       <<"Error: API request failed (", ToString(r.status), "): ",
                         IF r.msg = Undefined THEN "Unknown error" ELSE r.msg>>
           ELSE IF r.code = "ECONNABORTED"
             THEN <<"Error: Request timed out. Please try again.">>
             ELSE IF r.code = "ENOTFOUND"
               THEN <<"Error: Unable to reach Wyze servers. Please check your internet connection.">>
               ELSE <<"Error: Network error: ", "error.message">>
    ELSE <<"Error: ">> \o ErrorMessage(error)

\* A JavaScript number is kept in tenths (25 stands for 2.5), so that
\* Math.round has something to round.
\* Math.round: to the nearest integer, a half towards +Infinity
MathRound(tenths) == (tenths + 5) \div 10

MathMax(a, b) == IF a >= b THEN a ELSE b
MathMin(a, b) == IF a <= b THEN a ELSE b

\* constants.ts PropertyId
PID_BRIGHTNESS == "P1501"
PID_COLOR_TEMP == "P1502"

\* variant: the lower limit is 0
setDeviceBrightness_fromZero(brightness) ==
  [threw |-> FALSE, pid |-> PID_BRIGHTNESS,
   pvalue |-> ToString(MathMax(0, MathMin(100, MathRound(brightness))))]

\* setDeviceBrightness, api.ts lines 281-288: the property id and value it
\* hands to setDeviceProperty, which sends them as pid and pvalue (lines 149-150)
setDeviceBrightness(brightness) ==
  [threw |-> FALSE, pid |-> PID_BRIGHTNESS,
   pvalue |-> ToString(MathMax(1, MathMin(100, MathRound(brightness))))]

\* variant: only the upper limit is applied
setDeviceColorTemp_upperOnly(colorTemp) ==
  [threw |-> FALSE, pid |-> PID_COLOR_TEMP,
   pvalue |-> ToString(MathMin(6500, MathRound(colorTemp)))]

\* setDeviceColorTemp, api.ts lines 291-298
setDeviceColorTemp(colorTemp) ==
  [threw |-> FALSE, pid |-> PID_COLOR_TEMP,
   pvalue |-> ToString(MathMax(2700, MathMin(6500, MathRound(colorTemp))))]

\* inputs of the helper functions
SignKeys == {<<"a">>, <<"a", "b">>, <<"z">>}
SignValues == {<<"1">>, <<"2">>, <<"1", "&", "z", "=", "2">>}

\* the parameter objects of up to MaxParams entries: every insertion order of
\* every mapping
ParamObjects ==
  UNION {{p \in [1..n -> SignKeys \X SignValues] :
            \A i, j \in 1..n : i # j => p[i][1] # p[j][1]} : n \in 0..MaxParams}

SignCalls ==
  {[method |-> <<"p", "o", "s", "t">>, path |-> LockControlPath],
   [method |-> <<"P", "O", "S", "T">>, path |-> LockControlPath],
   [method |-> <<"G", "E", "T">>, path |-> LockInfoPath]}

SignInputs ==
  {[method |-> c.method, path |-> c.path, params |-> p] :
     c \in SignCalls, p \in ParamObjects}

\* brightness and colour temperature arguments, in tenths
BrightnessInputs ==
  {10 * i : i \in (-2..3) \cup (98..102) \cup {50, 150}}
    \cup {4, 5, 14, 15, 994, 995, 1004, 1005}
ColorTempInputs ==
  {10 * i : i \in {0, 2000, 2699, 2700, 2701, 4000, 6499, 6500, 6501, 9000}}
    \cup {26994, 26995, 65004, 65005}

PasswordInputs == {<<>>, <<"p">>, <<"p", "w">>, Md5Hex(<<"p">>)}

PureInput(fn, input) == [fn |-> fn, pc |-> "input", input |-> input, output |-> None]

\* the parameter names of the lock requests
K_access_token == <<"a", "c", "c", "e", "s", "s", "_", "t", "o", "k", "e", "n">>
K_key == <<"k", "e", "y">>
K_timestamp == <<"t", "i", "m", "e", "s", "t", "a", "m", "p">>
K_action == <<"a", "c", "t", "i", "o", "n">>
K_uuid == <<"u", "u", "i", "d">>
K_with_keypad == <<"w", "i", "t", "h", "_", "k", "e", "y", "p", "a", "d">>
K_sign == <<"s", "i", "g", "n">>

\* the device the lock tools act on
DeviceMac == <<"mac1">>

\* controlLock lines 205-228 and getLockInfo lines 238-257: the request as it
\* leaves the client
LockRequest(inv, accessToken, t) ==
  LET timestamp == <<ToString(t)>>
      isControl == inv.op = "controlLock"
      method == IF isControl THEN <<"P", "O", "S", "T">> ELSE <<"G", "E", "T">>
      path == IF isControl THEN LockControlPath ELSE LockInfoPath
      params ==
        IF isControl
          THEN <<<<K_access_token, <<accessToken>>>>, <<K_key, FORD_APP_KEY>>,
                 <<K_timestamp, timestamp>>, <<K_action, <<inv.action[1]>>>>,
                 <<K_uuid, DeviceMac>>>>
          ELSE <<<<K_access_token, <<accessToken>>>>, <<K_key, FORD_APP_KEY>>,
                 <<K_timestamp, timestamp>>, <<K_uuid, DeviceMac>>,
                 <<K_with_keypad, <<"1">>>>>>
      sign == createFordSignature(method, path, params, timestamp)
  IN [method |-> method, path |-> path,
      sent |-> Serialize(params \o <<<<K_sign, sign>>>>)]

\* createBasePayload, api.ts lines 30-42
createBasePayload(accessToken, t) ==
  <<<<K_access_token, <<accessToken>>>>>> \o AppFields(t)

\* the device the other tools act on
DeviceModel == <<"model1">>

\* getDeviceList lines 91-98, getDeviceProperties lines 114-127,
\* setDeviceProperty lines 145-160 and runDeviceAction lines 176-191: the
\* request as it leaves the client; the property and the action are the
\* caller's arguments
DeviceRequest(inv, accessToken, t) ==
  LET base == createBasePayload(accessToken, t)
      device == <<<<<<"device_mac">>, DeviceMac>>, <<<<"device_model">>, DeviceModel>>>>
  IN [method |-> <<"P", "O", "S", "T">>,
      path |-> CASE inv.op = "getDeviceList" -> <<"/app/v2/home_page/get_object_list">>
                 [] inv.op = "getDeviceProperties" -> <<"/app/v2/device/get_property_list">>
                 [] inv.op = "setDeviceProperty" -> <<"/app/v2/device/set_property">>
                 [] inv.op = "runDeviceAction" -> <<"/app/v2/auto/run_action">>,
      sent |-> Serialize(
        CASE inv.op = "getDeviceList" -> base
          [] inv.op = "getDeviceProperties" -> base \o device
          [] inv.op = "setDeviceProperty" ->
               base \o device \o <<<<<<"pid">>, <<"propertyId">>>>,
                                    <<<<"pvalue">>, <<"propertyValue">>>>>>
          [] inv.op = "runDeviceAction" ->
               base \o <<<<<<"instance_id">>, <<"instanceId">>>>,
                          <<<<"provider_key">>, <<"providerKey">>>>,
                          <<<<"action_key">>, <<"actionKey">>>>,
                          <<<<"action_params">>, <<"actionParams || {}">>>>>>)]

\* the request an operation sends: the lock operations a signed one, the
\* others the base payload with the token and their own fields
LockOps == {"controlLock", "getLockInfo"}
ApiRequest(inv, accessToken, t) ==
  IF inv.op \in LockOps
    THEN Some(LockRequest(inv, accessToken, t))
    ELSE Some(DeviceRequest(inv, accessToken, t))

\* History of the authentication requests, numbered 1, 2, ... in the order
\* in which they left the client (axios.post, auth.ts lines 61 and 151):
\* the number the next request gets, the number of each caller's request in
\* flight (0: none), the number of the request whose response wrote the
\* stored pair (lines 119-123 and 183-187; 0: nothing stored), and the
\* highest number among the requests whose response wrote a pair.
NoOrder ==
  [next |-> 1, inflight |-> [c \in Callers |-> 0], stored |-> 0, latest |-> 0]

\* the history after a step of caller c that leaves it as rec: wrote tells
\* whether the step stored the pair of the response it handled
OrderAfter(o, c, rec, wrote) ==
  LET sends == rec.pc \in {"awaitLogin", "awaitRefresh"}
      answered == o.inflight[c]
  IN [next |-> IF sends THEN o.next + 1 ELSE o.next,
      inflight |-> [o.inflight EXCEPT ![c] = IF sends THEN o.next ELSE 0],
      stored |-> IF wrote THEN answered ELSE o.stored,
      latest |-> IF wrote /\ answered > o.latest THEN answered ELSE o.latest]

\* no tool handler in progress
NoTool ==
  [pc |-> "idle", name |-> "none", device |-> None, awaited |-> NoResult,
   result |-> NoResult]

\* no helper evaluation
NoPure == [fn |-> "none", pc |-> "done"]

\* no API operation in progress
NoApi ==
  [pc |-> "idle", inv |-> None, nReq |-> 0, sentToken |-> None, req |-> None,
   resp |-> None, nThrown |-> 0, result |-> NoResult, text |-> None]

\* an operation ends by throwing e; the tool handler's catch (types.ts lines
\* 377-381) turns it into the text shown to the user
ApiThrow(a, e) ==
  [a EXCEPT !.pc = "done", !.nThrown = @ + 1, !.result = Thrown(e),
            !.text = Some(handleApiError(e))]

\* variant: a rejection of ensureValidToken is swallowed and the request is
\* sent without a token
ApiAfterAuth_sendsWithoutToken(a, rec) ==
  IF a.pc # "auth" \/ rec.pc # "done"
    THEN a
    ELSE LET tok == IF rec.result.status = "ok" THEN rec.result.value ELSE Undefined
         IN [a EXCEPT !.pc = "awaitApi", !.nReq = @ + 1,
                      !.sentToken = Some(tok),
                      !.req = ApiRequest(a.inv[1], tok, now)]

\* an operation after `await ensureValidToken()` settles (lines 89-98): the
\* rejection propagates, or the one request is sent with the token
ApiAfterAuth(a, rec) ==
  IF a.pc # "auth" \/ rec.pc # "done"
    THEN a
    ELSE IF rec.result.status = "ok"
      THEN [a EXCEPT !.pc = "awaitApi", !.nReq = @ + 1,
                     !.sentToken = Some(rec.result.value),
                     !.req = ApiRequest(a.inv[1], rec.result.value, now)]
      ELSE ApiThrow(a, rec.result.error)

(* ------------------------- the tool handlers -------------------------- *)

Inv(op) == [op |-> op, action |-> None]

\* The eleven tools (types.ts lines 317-970): whether the handler first looks
\* the device up with findDevice, and the operation it awaits after that.
\* getDeviceStatus calls getDeviceProperties; setDevicePower,
\* setDeviceBrightness and setDeviceColorTemp call setDeviceProperty. The code
\* of setDeviceColor is not among the sources.
ToolTable ==
  [wyze_list_devices |-> [lookup |-> FALSE, second |-> None],
   wyze_get_device_status |-> [lookup |-> TRUE, second |-> Some(Inv("getDeviceProperties"))],
   wyze_turn_on |-> [lookup |-> TRUE, second |-> Some(Inv("setDeviceProperty"))],
   wyze_turn_off |-> [lookup |-> TRUE, second |-> Some(Inv("setDeviceProperty"))],
   wyze_set_brightness |-> [lookup |-> TRUE, second |-> Some(Inv("setDeviceProperty"))],
   wyze_set_color_temp |-> [lookup |-> TRUE, second |-> Some(Inv("setDeviceProperty"))],
   wyze_set_color |-> [lookup |-> TRUE, second |-> Some(Inv("setDeviceColor"))],
   wyze_lock |-> [lookup |-> TRUE,
                  second |-> Some([op |-> "controlLock", action |-> Some("lock")])],
   wyze_unlock |-> [lookup |-> TRUE,
                    second |-> Some([op |-> "controlLock", action |-> Some("unlock")])],
   wyze_get_lock_info |-> [lookup |-> TRUE, second |-> Some(Inv("getLockInfo"))],
   wyze_run_action |-> [lookup |-> TRUE, second |-> Some(Inv("runDeviceAction"))]]

Tools == DOMAIN ToolTable

\* the handler returns its success result
ToolSuccess == [status |-> "result", isError |-> FALSE, text |-> <<"Successfully ...">>]

\* findDevice returned null (e.g. lines 410-420)
ToolNotFound ==
  [status |-> "result", isError |-> TRUE,
   text |-> <<"Error: Device \"", "${params.device}",
              "\" not found. Use wyze_list_devices to see available devices.">>]

\* findDevice, api.ts lines 301-314: the first device of the list whose mac
\* or nickname matches the identifier, or null
findDevice(found) == IF found THEN [mac |-> DeviceMac] ELSE Null

\* variant: the handler goes on without testing what findDevice returned
NotFound_neverTested(device) == FALSE

\* the handler's `if (!device)` (e.g. types.ts line 410)
NotFound(device) == device = Null

\* variant: the handler has no catch, the error leaves it
ToolCatch_rethrows(error) == [status |-> "rejected", error |-> error]

\* the handler's catch block (e.g. lines 377-382)
ToolCatch(error) ==
  [status |-> "result", isError |-> TRUE, text |-> handleApiError(error)]

\* the property_list of a successful getDeviceProperties answer
PropertyList == <<"property_list">>

\* getDeviceStatus, api.ts lines 341-344: the device's info and the
\* properties collected
DeviceStatus(properties) ==
  [status |-> "ok", info |-> "toDeviceInfo(device)", properties |-> properties]

\* variant: getDeviceStatus awaits getDeviceProperties outside any try
Awaited_noCatch(tl, result) == result

\* what the handler's await sees of an operation that ended with result:
\* getDeviceStatus (api.ts lines 332-339) catches whatever getDeviceProperties
\* throws and returns the status without properties
Awaited(tl, result) ==
  IF tl.name = "wyze_get_device_status" /\ tl.pc = "second"
    THEN DeviceStatus(IF result.status = "ok" THEN PropertyList ELSE <<>>)
    ELSE result

\* the handler after its last operation has ended
ToolEnd(tl, result) ==
  LET seen == Awaited(tl, result) IN
  [tl EXCEPT !.pc = "done", !.awaited = seen,
             !.result = IF seen.status = "error"
                          THEN ToolCatch(seen.error) ELSE ToolSuccess]

\* the handler once the operation it awaits has got as far as a
ToolAfterApi(tl, a) ==
  IF a.pc # "done" THEN tl
  ELSE IF a.result.status = "ok" /\ tl.pc = "first" /\ ToolTable[tl.name].lookup
    THEN tl
    ELSE ToolEnd(tl, a.result)

\* what setDeviceColor may end with
ExternalOutcomes ==
  {[status |-> "ok"],
   Thrown(Err("ApiLogicalError", "setDeviceColor", <<"Failed to set property: ", "m1">>)),
   Thrown(AxiosError("setDeviceColor", [kind |-> "http_error", status |-> 429,
                                        msg |-> Undefined]))}

\* the answers of the device and lock endpoints the tool handlers are run
\* against
ToolApiResponses ==
  {r \in ApiResponses :
     \/ r.kind = "ok" /\ r.body.msg = "m1" /\ r.body.code \in {CodeNumOne, CodeOther}
     \/ r.kind = "http_error" /\ r.status \in {404, 429} /\ r.msg = Undefined
     \/ r.kind = "network" /\ r.code = "ECONNABORTED"}

TypeOK ==
  /\ credentials \in {Null, TheCredentials}
  /\ now \in Nat
  /\ ticks \in 0..MaxTicks
  /\ calls \in 0..MaxCalls
  /\ \A c \in Callers : call[c].pc \in {"idle", "awaitLogin", "awaitRefresh", "done"}

Init ==
  /\ credentials = Null
  /\ currentTokens = Null
  /\ now = 0
  /\ call = [c \in Callers |-> NewCall]
  /\ ticks = 0
  /\ calls = 0
  /\ lastLoginResp = None
  /\ env \in Envs
  /\ proc = Starting
  /\ api = NoApi
  /\ pure = NoPure
  /\ tool = NoTool
  /\ order = NoOrder

\* setCredentials, lines 32-34
setCredentials(creds) ==
  /\ credentials' = creds

\* main, types.ts lines 975-996: initAuthFromEnv, then exit(1) on its error
\* or the connection of the transport
main ==
  /\ proc = Starting
  /\ LET r == initAuthFromEnv(env) IN
     IF r.ok
       THEN setCredentials(r.creds) /\ proc' = Connected
       ELSE UNCHANGED credentials /\ proc' = Exited(r.missing)
  /\ UNCHANGED <<currentTokens, now, call, ticks, calls, lastLoginResp, env, order, api, pure,
                 tool>>

\* the clock advances between two steps of the program
Tick(d) ==
  /\ ticks < MaxTicks
  /\ ticks' = ticks + 1
  /\ now' = now + d
  /\ UNCHANGED <<credentials, currentTokens, call, calls, lastLoginResp>>

\* ensureValidToken, lines 198-210, up to its first await or its return
ensureValidToken(c) ==
  /\ call[c].pc \in {"idle", "done"}
  /\ c = "c1" \/ call["c1"].pc \in {"awaitLogin", "awaitRefresh"}
  /\ calls < MaxCalls
  /\ calls' = calls + 1
  /\ LET rec == [NewCall EXCEPT !.startNow = now, !.startTokens = currentTokens] IN
     call' = [call EXCEPT ![c] =
       IF currentTokens = Null \/ isTokenExpired(currentTokens, now)
         THEN LoginStart(rec)
         ELSE IF isTokenNearExpiry(currentTokens, now)
           THEN RefreshStart(rec)
           ELSE [rec EXCEPT !.pc = "done", !.result = EnsureReturn(currentTokens)]]
  /\ credentials' = IF call'[c].pc = "awaitLogin"
                      THEN LoginCredentials(credentials) ELSE credentials
  /\ UNCHANGED <<currentTokens, now, ticks, lastLoginResp>>

\* login called directly (exported, lines 52-77), up to its await or its throw
login(c) ==
  /\ call[c].pc \in {"idle", "done"}
  /\ calls < MaxCalls
  /\ calls' = calls + 1
  /\ call' = [call EXCEPT ![c] =
       LoginStart([NewCall EXCEPT !.op = "login", !.startNow = now,
                                  !.startTokens = currentTokens])]
  /\ credentials' = IF call'[c].pc = "awaitLogin"
                      THEN LoginCredentials(credentials) ELSE credentials
  /\ UNCHANGED <<currentTokens, now, ticks, lastLoginResp>>

\* refreshToken called directly (exported, lines 141-173), up to its await or
\* its throw
refreshToken(c) ==
  /\ call[c].pc \in {"idle", "done"}
  /\ calls < MaxCalls
  /\ calls' = calls + 1
  /\ call' = [call EXCEPT ![c] =
       RefreshStart([NewCall EXCEPT !.op = "refreshToken", !.startNow = now,
                                    !.startTokens = currentTokens])]
  /\ credentials' = IF call'[c].pc = "awaitLogin"
                      THEN LoginCredentials(credentials) ELSE credentials
  /\ UNCHANGED <<currentTokens, now, ticks, lastLoginResp>>

\* variant: a failed login drops the stored pair
loginResponse_clearsOnFailure(c, resp) ==
  /\ call[c].pc = "awaitLogin"
  /\ LET out == LoginOutcome(resp, now)
         rec == [call[c] EXCEPT
                   !.loginSeen = Some(LoginSeen(resp)),
                   !.loginIssued = IF out.ok THEN Some(out.tokens.accessToken) ELSE None]
     IN
     IF out.ok
       THEN /\ currentTokens' = out.tokens
            /\ call' = [call EXCEPT ![c] =
                 [rec EXCEPT !.pc = "done", !.result = CallReturn(rec.op, out.tokens)]]
       ELSE /\ currentTokens' = Null
            /\ call' = [call EXCEPT ![c] =
                 [rec EXCEPT !.pc = "done", !.result = Thrown(out.error)]]
  /\ UNCHANGED <<credentials, now, ticks, calls>>

\* the login request of caller c is answered: login, lines 79-137, then the
\* rest of ensureValidToken
loginResponse(c, resp) ==
  /\ call[c].pc = "awaitLogin"
  /\ LET out == LoginOutcome(resp, now)
         rec == [call[c] EXCEPT
                   !.loginSeen = Some(LoginSeen(resp)),
                   !.loginIssued = IF out.ok THEN Some(out.tokens.accessToken) ELSE None]
     IN
     IF out.ok
       THEN /\ currentTokens' = out.tokens
            /\ call' = [call EXCEPT ![c] =
                 [rec EXCEPT !.pc = "done", !.result = CallReturn(rec.op, out.tokens)]]
       ELSE /\ UNCHANGED currentTokens
            /\ call' = [call EXCEPT ![c] =
                 IF rec.refreshVia # "none" /\ ~rec.retried
                    /\ FallbackRejectionCaught(rec.refreshVia)
                   THEN LoginStart([rec EXCEPT !.retried = TRUE])
                   ELSE [rec EXCEPT !.pc = "done", !.result = Thrown(out.error)]]
  /\ UNCHANGED <<credentials, now, ticks, calls>>

\* the refresh request of caller c is answered: refreshToken, lines 175-194,
\* then the rest of ensureValidToken or the fallback login up to its await
refreshResponse(c, resp) ==
  /\ call[c].pc = "awaitRefresh"
  /\ LET out == RefreshOutcome(resp, now)
         rec == [call[c] EXCEPT !.refreshSeen = Some(RefreshSeen(resp))]
     IN
     IF out.kind = "stored"
       THEN /\ currentTokens' = out.tokens
            /\ call' = [call EXCEPT ![c] =
                 [rec EXCEPT !.pc = "done", !.result = CallReturn(rec.op, out.tokens)]]
       ELSE /\ UNCHANGED currentTokens
            /\ call' = [call EXCEPT ![c] =
                 LoginStart([rec EXCEPT !.refreshVia = out.via])]
  /\ credentials' = IF call'[c].pc = "awaitLogin"
                      THEN LoginCredentials(credentials) ELSE credentials
  /\ UNCHANGED <<now, ticks, calls, lastLoginResp>>

\* what the token operations leave alone
AuthFrame == UNCHANGED <<env, order, proc, api, pure, tool>>

\* The server process: main (types.ts lines 975-996) sets the credentials once,
\* before the transport is connected and any tool handler can run.
Next ==
  \/ main
  \/ \E d \in TickSteps : Tick(d) /\ AuthFrame
  \/ \E c \in Callers : proc = Connected /\ ensureValidToken(c) /\ AuthFrame
  \/ \E c \in Callers : \E resp \in FormattedLoginResponses :
       loginResponse(c, resp) /\ UNCHANGED lastLoginResp /\ AuthFrame
  \/ \E c \in Callers : \E resp \in RefreshResponses :
       refreshResponse(c, resp) /\ AuthFrame

Spec == Init /\ [][Next]_vars

\* login as a function of its response: one caller, sequential invocations,
\* responses with any mixture of top-level and nested fields, each login
\* response recorded next to the outcome it led to
NextLogin ==
  \/ main
  \/ proc = Connected /\ ensureValidToken("c1") /\ AuthFrame
  \/ \E resp \in LoginResponses :
       loginResponse("c1", resp) /\ lastLoginResp' = Some(resp) /\ AuthFrame

SpecLogin == Init /\ [][NextLogin]_vars

\* The server process as in Spec, where every request in flight is answered
\* in the end: axios settles each post with the response, with a transport
\* error, or after its 30 s timeout (auth.ts lines 73 and 169) with
\* ECONNABORTED.
\* One answer of each kind is enough here: the transport errors, and the
\* 2xx answers with a success or another code, with or without a token.
LoginAnswers ==
  {r \in FormattedLoginResponses :
     \/ r.kind # "ok"
     \/ /\ r.body.data = None
        /\ r.body.code \in {CodeNumOne, CodeOther}
        /\ r.body.access_token \in {Undefined, "at1"}
        /\ r.body.refresh_token = "rt1"}

RefreshAnswers ==
  {r \in RefreshResponses :
     \/ r.kind # "ok"
     \/ /\ r.body.code \in {CodeNumOne, CodeOther}
        /\ r.body.data # None
        /\ r.body.data[1].access_token \in {Undefined, "at2"}
        /\ r.body.data[1].refresh_token = "rt1"}

AnswerLogin(c) ==
  \E resp \in LoginAnswers :
    loginResponse(c, resp) /\ UNCHANGED lastLoginResp /\ AuthFrame

AnswerRefresh(c) ==
  \E resp \in RefreshAnswers : refreshResponse(c, resp) /\ AuthFrame

NextAnswered ==
  \/ main
  \/ \E d \in TickSteps : Tick(d) /\ AuthFrame
  \/ \E c \in Callers : proc = Connected /\ ensureValidToken(c) /\ AuthFrame
  \/ \E c \in Callers : AnswerLogin(c)
  \/ \E c \in Callers : AnswerRefresh(c)

SpecAnswered ==
  /\ Init
  /\ [][NextAnswered]_vars
  /\ \A c \in Callers : WF_vars(AnswerLogin(c)) /\ WF_vars(AnswerRefresh(c))

\* The server process as in Spec, with the order of the authentication
\* requests recorded.
NextOrder ==
  \/ main
  \/ \E d \in TickSteps : Tick(d) /\ AuthFrame
  \/ \E c \in Callers :
       /\ proc = Connected
       /\ ensureValidToken(c)
       /\ order' = OrderAfter(order, c, call'[c], FALSE)
       /\ UNCHANGED <<env, proc, api, pure, tool>>
  \/ \E c \in Callers : \E resp \in FormattedLoginResponses :
       /\ loginResponse(c, resp)
       /\ UNCHANGED lastLoginResp
       /\ order' = OrderAfter(order, c, call'[c], LoginOutcome(resp, now).ok)
       /\ UNCHANGED <<env, proc, api, pure, tool>>
  \/ \E c \in Callers : \E resp \in RefreshResponses :
       /\ refreshResponse(c, resp)
       /\ order' = OrderAfter(order, c, call'[c],
                              RefreshOutcome(resp, now).kind = "stored")
       /\ UNCHANGED <<env, proc, api, pure, tool>>

SpecOrder == Init /\ [][NextOrder]_vars

\* auth.ts used as a module: its exported functions called in any order by
\* one caller, before or after setCredentials, each login response recorded
InitModule == Init /\ env = [WYZE_EMAIL |-> "e", WYZE_PASSWORD |-> "p",
                             WYZE_API_KEY |-> "k", WYZE_KEY_ID |-> "i"]

NextModule ==
  \/ \E creds \in {TheCredentials} :
       /\ credentials = Null
       /\ setCredentials(creds)
       /\ UNCHANGED <<currentTokens, now, call, ticks, calls, lastLoginResp>>
       /\ AuthFrame
  \/ login("c1") /\ AuthFrame
  \/ refreshToken("c1") /\ AuthFrame
  \/ ensureValidToken("c1") /\ AuthFrame
  \/ \E resp \in FormattedLoginResponses :
       loginResponse("c1", resp) /\ lastLoginResp' = Some(resp) /\ AuthFrame
  \/ \E resp \in RefreshResponses : refreshResponse("c1", resp) /\ AuthFrame

SpecModule == InitModule /\ [][NextModule]_vars

\* a tool handler calls one of the six operations (api.ts lines 88-264), which
\* first awaits ensureValidToken
apiCall(inv) ==
  /\ api.pc \in {"idle", "done"}
  /\ ensureValidToken("c1")
  /\ api' = ApiAfterAuth([NoApi EXCEPT !.pc = "auth", !.inv = Some(inv)],
                         call'["c1"])

\* variant: a 401 from the endpoint drops the cached pair, so that the next
\* call logs in again
apiResponse_dropsTokenOn401(resp) ==
  /\ api.pc = "awaitApi"
  /\ LET out == ApiOutcome(api.inv[1], resp)
         a == [api EXCEPT !.resp = Some(resp)]
     IN
     api' = IF out.status = "ok"
              THEN [a EXCEPT !.pc = "done", !.result = out]
              ELSE ApiThrow(a, out.error)
  /\ currentTokens' = IF resp.kind = "http_error" /\ resp.status = 401
                        THEN Null ELSE currentTokens
  /\ UNCHANGED <<credentials, now, call, ticks, calls,
                 lastLoginResp, env, order, proc, pure>>

\* variant: a failed request is sent once more
apiResponse_retries(resp) ==
  /\ api.pc = "awaitApi"
  /\ LET out == ApiOutcome(api.inv[1], resp)
         a == [api EXCEPT !.resp = Some(resp)]
     IN
     api' = IF out.status = "ok"
              THEN [a EXCEPT !.pc = "done", !.result = out]
              ELSE IF a.nReq < 2
                THEN [a EXCEPT !.nReq = @ + 1]
                ELSE ApiThrow(a, out.error)
  /\ UNCHANGED <<credentials, currentTokens, now, call, ticks, calls,
                 lastLoginResp, env, order, proc, pure>>

\* the request to the device or lock endpoint is answered
apiResponse(resp) ==
  /\ api.pc = "awaitApi"
  /\ LET out == ApiOutcome(api.inv[1], resp)
         a == [api EXCEPT !.resp = Some(resp)]
     IN
     api' = IF out.status = "ok"
              THEN [a EXCEPT !.pc = "done", !.result = out]
              ELSE ApiThrow(a, out.error)
  /\ UNCHANGED <<credentials, currentTokens, now, call, ticks, calls,
                 lastLoginResp, env, order, proc, pure>>

\* The server process serving tool calls one at a time: each handler runs one
\* API operation, whose token requests and endpoint request are answered by
\* the backend.
NextApi ==
  \/ main
  \/ \E d \in TickSteps : Tick(d) /\ AuthFrame
  \/ \E inv \in ApiInvocations :
       proc = Connected /\ apiCall(inv) /\ UNCHANGED <<env, order, proc, pure, tool>>
  \/ \E resp \in FormattedLoginResponses :
       /\ loginResponse("c1", resp)
       /\ UNCHANGED lastLoginResp
       /\ api' = ApiAfterAuth(api, call'["c1"])
       /\ UNCHANGED <<env, order, proc, pure, tool>>
  \/ \E resp \in RefreshResponses :
       /\ refreshResponse("c1", resp)
       /\ api' = ApiAfterAuth(api, call'["c1"])
       /\ UNCHANGED <<env, order, proc, pure, tool>>
  \/ \E resp \in ApiResponses : apiResponse(resp) /\ UNCHANGED tool

SpecApi == Init /\ [][NextApi]_vars

\* a tool handler is invoked (types.ts, e.g. lines 340-342 and 407-409): its
\* first await is getDeviceList, directly or inside findDevice
toolCall(t) ==
  /\ tool.pc \in {"idle", "done"}
  /\ apiCall(Inv("getDeviceList"))
  /\ tool' = ToolAfterApi([NoTool EXCEPT !.pc = "first", !.name = t], api')

\* the endpoint request of the handler's current operation is answered; after
\* a successful findDevice the handler goes on at once: the not-found result,
\* or its second operation up to that one's first await
toolApiResponse(resp, found) ==
  /\ tool.pc \in {"first", "second"}
  /\ api.pc = "awaitApi"
  /\ LET out == ApiOutcome(api.inv[1], resp)
         a == [api EXCEPT !.resp = Some(resp), !.pc = "done", !.result = out]
         entry == ToolTable[tool.name]
         device == findDevice(found)
         tl == [tool EXCEPT !.device = Some(device)]
     IN
     IF out.status = "ok" /\ tool.pc = "first" /\ entry.lookup
       THEN IF NotFound(device)
              THEN /\ api' = a
                   /\ tool' = [tl EXCEPT !.pc = "done", !.awaited = out,
                                         !.result = ToolNotFound]
                   /\ UNCHANGED <<credentials, currentTokens, now, call, ticks,
                                  calls, lastLoginResp>>
            ELSE IF entry.second[1].op = "setDeviceColor"
              THEN /\ api' = a
                   /\ tool' = [tl EXCEPT !.pc = "external", !.awaited = out]
                   /\ UNCHANGED <<credentials, currentTokens, now, call, ticks,
                                  calls, lastLoginResp>>
              ELSE /\ ensureValidToken("c1")
                   /\ api' = ApiAfterAuth([NoApi EXCEPT !.pc = "auth",
                                                        !.inv = entry.second],
                                          call'["c1"])
                   /\ tool' = ToolAfterApi([tl EXCEPT !.pc = "second"], api')
       ELSE /\ apiResponse(resp)
            /\ tool' = ToolAfterApi(tool, api')
  /\ UNCHANGED <<env, order, proc, pure>>

\* setDeviceColor, awaited by the wyze_set_color handler (line 715), ends
setDeviceColorSettles(outcome) ==
  /\ tool.pc = "external"
  /\ tool' = ToolEnd(tool, outcome)
  /\ UNCHANGED <<credentials, currentTokens, now, call, ticks, calls,
                 lastLoginResp, env, order, proc, api, pure>>

\* The server process serving tool calls one at a time, each handler from its
\* invocation to its result.
NextTool ==
  \/ main
  \/ \E d \in TickSteps : Tick(d) /\ AuthFrame
  \/ \E t \in Tools :
       proc = Connected /\ toolCall(t) /\ UNCHANGED <<env, order, proc, pure>>
  \/ \E resp \in FormattedLoginResponses :
       /\ loginResponse("c1", resp)
       /\ UNCHANGED lastLoginResp
       /\ api' = ApiAfterAuth(api, call'["c1"])
       /\ tool' = ToolAfterApi(tool, api')
       /\ UNCHANGED <<env, order, proc, pure>>
  \/ \E resp \in RefreshResponses :
       /\ refreshResponse("c1", resp)
       /\ api' = ApiAfterAuth(api, call'["c1"])
       /\ tool' = ToolAfterApi(tool, api')
       /\ UNCHANGED <<env, order, proc, pure>>
  \/ \E resp \in ToolApiResponses : \E found \in BOOLEAN :
       toolApiResponse(resp, found)
  \/ \E outcome \in ExternalOutcomes : setDeviceColorSettles(outcome)

SpecTool == Init /\ [][NextTool]_vars

\* the helper functions, each applied to one input
PureFrame ==
  UNCHANGED <<credentials, currentTokens, now, call, ticks, calls,
              lastLoginResp, env, order, proc, api, tool>>

Apply_createFordSignature ==
  /\ pure.fn = "createFordSignature" /\ pure.pc = "input"
  /\ LET i == pure.input IN
     pure' = [pure EXCEPT !.pc = "done", !.output = Some(
       [signString |-> SignString(i.method, i.path, i.params),
        sign |-> createFordSignature(i.method, i.path, i.params, "ts")])]
  /\ PureFrame

Apply_setDeviceBrightness ==
  /\ pure.fn = "setDeviceBrightness" /\ pure.pc = "input"
  /\ pure' = [pure EXCEPT !.pc = "done",
                          !.output = Some(setDeviceBrightness(pure.input))]
  /\ PureFrame

Apply_setDeviceColorTemp ==
  /\ pure.fn = "setDeviceColorTemp" /\ pure.pc = "input"
  /\ pure' = [pure EXCEPT !.pc = "done",
                          !.output = Some(setDeviceColorTemp(pure.input))]
  /\ PureFrame

Apply_hashPassword ==
  /\ pure.fn = "hashPassword" /\ pure.pc = "input"
  /\ pure' = [pure EXCEPT !.pc = "done", !.output = Some(hashPassword(pure.input))]
  /\ PureFrame

InitPure ==
  /\ credentials = Null
  /\ currentTokens = Null
  /\ now = 0
  /\ call = [c \in Callers |-> NewCall]
  /\ ticks = 0
  /\ calls = 0
  /\ lastLoginResp = None
  /\ env = [WYZE_EMAIL |-> "e", WYZE_PASSWORD |-> "p",
            WYZE_API_KEY |-> "k", WYZE_KEY_ID |-> "i"]
  /\ proc = Starting
  /\ api = NoApi
  /\ tool = NoTool
  /\ order = NoOrder
  /\ \/ \E i \in SignInputs : pure = PureInput("createFordSignature", i)
     \/ \E i \in BrightnessInputs : pure = PureInput("setDeviceBrightness", i)
     \/ \E i \in ColorTempInputs : pure = PureInput("setDeviceColorTemp", i)
     \/ \E i \in PasswordInputs : pure = PureInput("hashPassword", i)

NextPure ==
  \/ Apply_createFordSignature
  \/ Apply_setDeviceBrightness
  \/ Apply_setDeviceColorTemp
  \/ Apply_hashPassword

SpecPure == InitPure /\ [][NextPure]_vars

(* ------------------------------ claims -------------------------------- *)

OneHourMs == 60 * 60 * 1000
FortyEightHoursMs == 48 * 60 * 60 * 1000

Returned(tok) == [status |-> "ok", value |-> tok]

\* a refresh response that is a failure: a transport or HTTP failure, a code
\* other than 1 / "1", or an envelope without data (reading it throws)
RefreshFailedAsSeen(seen) ==
  \/ seen.kind # "ok"
  \/ seen.code \notin {CodeNumOne, CodeStrOne}
  \/ ~seen.hasData

InNearExpiryWindow(tokens, t) ==
  /\ tokens # Null
  /\ tokens.expiresAt - OneHourMs <= t
  /\ t < tokens.expiresAt

\* C1: when the refresh made by ensureValidToken fails in any way, a login is
\* attempted; if that login succeeds the call returns the access token that
\* login issued, and no error.
C1_RefreshFailureFallsBackToLogin ==
  \A c \in Callers :
    (call[c].refreshSeen # None /\ RefreshFailedAsSeen(call[c].refreshSeen[1])) =>
      /\ call[c].nLogin = 1
      /\ call[c].pc \in {"awaitLogin", "done"}
      /\ call[c].loginIssued # None =>
           /\ call[c].pc = "done"
           /\ call[c].result = Returned(call[c].loginIssued[1])

C1_Witness ==
  \E c \in Callers :
    /\ call[c].refreshSeen # None
    /\ RefreshFailedAsSeen(call[c].refreshSeen[1])
    /\ call[c].loginIssued # None
    /\ call[c].result.status = "ok"

\* C2: ensureValidToken called with no stored pair, or at or after the stored
\* pair's expiresAt, issues a login request and no refresh request, and on
\* login success returns the access token of the pair that login stored.
C2_ExpiredOrAbsentLogsIn ==
  \A c \in Callers :
    (/\ call[c].pc # "idle"
     /\ \/ call[c].startTokens = Null
        \/ call[c].startNow >= call[c].startTokens.expiresAt) =>
      /\ call[c].nRefresh = 0
      /\ call[c].sentRefreshToken = None
      /\ call[c].nLogin = 1
      /\ call[c].loginIssued # None =>
           /\ call[c].pc = "done"
           /\ call[c].result = Returned(call[c].loginIssued[1])

C2_Witness ==
  \E c \in Callers :
    /\ call[c].pc = "done"
    /\ call[c].startTokens # Null
    /\ call[c].startNow >= call[c].startTokens.expiresAt
    /\ call[c].loginIssued # None
    /\ call[c].result.status = "ok"

\* C3: ensureValidToken called with a stored pair within the last hour before
\* its expiresAt issues a refresh request carrying the stored refresh token,
\* and a login request only after that refresh has failed.
C3_NearExpiryRefreshes ==
  \A c \in Callers :
    (call[c].pc # "idle" /\ InNearExpiryWindow(call[c].startTokens, call[c].startNow)) =>
      /\ call[c].nRefresh = 1
      /\ call[c].sentRefreshToken = Some(call[c].startTokens.refreshToken)
      /\ call[c].nLogin > 0 =>
           /\ call[c].refreshSeen # None
           /\ RefreshFailedAsSeen(call[c].refreshSeen[1])

C3_Witness ==
  \E c \in Callers :
    /\ call[c].pc = "done"
    /\ InNearExpiryWindow(call[c].startTokens, call[c].startNow)
    /\ call[c].startNow = call[c].startTokens.expiresAt - OneHourMs
    /\ call[c].nLogin = 0
    /\ call[c].result.status = "ok"

\* C4: ensureValidToken called with a stored pair more than one hour before
\* its expiresAt returns the stored access token at once, sends no request
\* and leaves the stored pair unchanged.
C4_ValidTokenIsServedFromCache ==
  [][\A c \in Callers :
       (/\ call[c].pc \in {"idle", "done"}
        /\ call'[c] # call[c]
        /\ currentTokens # Null
        /\ now < currentTokens.expiresAt - OneHourMs) =>
         /\ call'[c].pc = "done"
         /\ call'[c].result = Returned(currentTokens.accessToken)
         /\ call'[c].nLogin = 0
         /\ call'[c].nRefresh = 0
         /\ currentTokens' = currentTokens]_vars

C4_Witness ==
  \E c \in Callers :
    /\ call[c].pc = "done"
    /\ call[c].startTokens # Null
    /\ call[c].startNow < call[c].startTokens.expiresAt - OneHourMs
    /\ call[c].nLogin = 0
    /\ call[c].nRefresh = 0
    /\ call[c].result.status = "ok"

LoginErrorKinds ==
  {"CredentialsNotSet", "InvalidCredentials", "LoginRequestFailed",
   "MfaRequired", "LoginFailedCode", "NoAccessToken"}

\* C5: every error that ensureValidToken ends with was raised by a failed
\* login attempt; nothing else makes it fail, and a refresh failure alone
\* never reaches the caller.
C5_OnlyLoginFailuresSurface ==
  \A c \in Callers :
    call[c].result.status = "error" =>
      /\ call[c].result.error.by = "login"
      /\ call[c].result.error.kind \in LoginErrorKinds
      /\ call[c].nLogin >= 1
      /\ call[c].loginIssued = None

C5_Witness ==
  \E c \in Callers :
    /\ call[c].result.status = "error"
    /\ call[c].refreshSeen # None
    /\ RefreshFailedAsSeen(call[c].refreshSeen[1])

\* C6: one ensureValidToken call issues at most one refresh request and at
\* most one login request, also when the refresh returns a non-success code
\* and the fallback login fails.
C6_AtMostOneRefreshAndOneLogin ==
  \A c \in Callers :
    /\ call[c].nLogin <= 1
    /\ call[c].nRefresh <= 1
    /\ (call[c].pc = "done" /\ call[c].refreshVia = "code"
          /\ call[c].loginIssued = None) =>
         call[c].result.status = "error"

C6_Witness ==
  \E c \in Callers :
    /\ call[c].pc = "done"
    /\ call[c].refreshSeen # None
    /\ call[c].refreshSeen[1].kind = "ok"
    /\ call[c].refreshSeen[1].code = CodeOther
    /\ call[c].result.status = "error"
    /\ call[c].nLogin = 1
    /\ call[c].nRefresh = 1

\* C7: in every reachable state the stored token pair is absent or has a
\* defined non-empty accessToken, a defined non-empty refreshToken and an
\* expiresAt.
C7_TokenPairWhollyPresentOrAbsent ==
  \/ currentTokens = Null
  \/ /\ DOMAIN currentTokens = {"accessToken", "refreshToken", "expiresAt"}
     /\ Truthy(currentTokens.accessToken)
     /\ Truthy(currentTokens.refreshToken)
     /\ currentTokens.expiresAt \in Nat

\* C8: every change of the stored pair is made by one answered login or
\* refresh, which writes accessToken, refreshToken and expiresAt together,
\* with expiresAt the time of the update plus 48 hours.
C8_PairReplacedWholesale ==
  [][currentTokens' # currentTokens =>
       /\ currentTokens' # Null
       /\ DOMAIN currentTokens' = {"accessToken", "refreshToken", "expiresAt"}
       /\ currentTokens'.expiresAt = now + FortyEightHoursMs
       /\ \E c \in Callers :
            /\ call[c].pc \in {"awaitLogin", "awaitRefresh"}
            /\ call'[c].pc = "done"
            /\ call'[c].result = Returned(currentTokens'.accessToken)]_vars

C8_Witness ==
  /\ currentTokens # Null
  /\ \E c \in Callers :
       /\ call[c].pc = "done"
       /\ call[c].startTokens # Null
       /\ call[c].nRefresh = 1
       /\ call[c].nLogin = 0
       /\ currentTokens.expiresAt > call[c].startTokens.expiresAt

\* C9: at any time at most one login or refresh request is in flight.
C9_SingleAuthRequestInFlight ==
  Cardinality({c \in Callers : call[c].pc \in {"awaitLogin", "awaitRefresh"}}) <= 1

\* a login body with no access token at the top level nor under data
NoAccessTokenAnywhere(body) ==
  /\ ~Truthy(body.access_token)
  /\ body.data = None \/ ~Truthy(body.data[1].access_token)

\* the MFA options a login body carries (none: the empty list)
MfaOptionsOf(body) ==
  IF body.data = None \/ body.data[1].mfa_options = None
    THEN <<>>
    ELSE body.data[1].mfa_options[1]

\* C10: a login response with no access token anywhere and a non-empty list
\* of MFA options makes login fail with the MFA-required error naming those
\* options, whatever the response code is.
C10_MfaRequiredForEveryCode ==
  (/\ call["c1"].pc = "done"
   /\ lastLoginResp # None
   /\ lastLoginResp[1].kind = "ok"
   /\ NoAccessTokenAnywhere(lastLoginResp[1].body)
   /\ MfaOptionsOf(lastLoginResp[1].body) # <<>>) =>
    /\ call["c1"].result.status = "error"
    /\ call["c1"].result.error.kind = "MfaRequired"
    /\ call["c1"].result.error.detail = MfaOptionsOf(lastLoginResp[1].body)

EnvComplete(e) ==
  /\ Truthy(e.WYZE_EMAIL)
  /\ Truthy(e.WYZE_PASSWORD)
  /\ Truthy(e.WYZE_API_KEY)
  /\ Truthy(e.WYZE_KEY_ID)

\* C15: startup sets the credentials only from four present, non-empty
\* environment values; otherwise it fails with a configuration error naming
\* a missing variable, the credentials stay unset, no request is sent and
\* the process exits without connecting.
C15_InitFromEnvAllOrNothing ==
  /\ proc = Starting => credentials = Null
  /\ (proc # Starting /\ EnvComplete(env)) =>
       /\ proc = Connected
       /\ credentials = [email |-> env.WYZE_EMAIL, password |-> env.WYZE_PASSWORD,
                         apiKey |-> env.WYZE_API_KEY, keyId |-> env.WYZE_KEY_ID]
  /\ (proc # Starting /\ ~EnvComplete(env)) =>
       /\ proc.state = "exited"
       /\ proc.error \in DOMAIN env
       /\ ~Truthy(env[proc.error])
       /\ credentials = Null
       /\ calls = 0
       /\ \A c \in Callers : call[c].pc = "idle"
       /\ api = NoApi

C15_Witness ==
  /\ proc = Exited("WYZE_KEY_ID")
  /\ env.WYZE_KEY_ID = ""
  /\ credentials = Null

\* C16: once set, the credentials never change: no login, refresh,
\* ensureValidToken or API step writes them.
C16_CredentialsImmutable ==
  [][credentials # Null => credentials' = credentials]_vars

C16_Witness ==
  /\ credentials # Null
  /\ \E c \in Callers :
       call[c].pc = "done" /\ call[c].nRefresh = 1 /\ call[c].nLogin = 1

\* the login of caller c1 has been answered by lastLoginResp and has ended
LoginAnswered ==
  /\ call["c1"].pc = "done"
  /\ call["c1"].nLogin = 1
  /\ lastLoginResp # None

LoginAnsweredWithBody == LoginAnswered /\ lastLoginResp[1].kind = "ok"

AnsweredBody == lastLoginResp[1].body

\* the token pair of a body that is in one of the two formats
IsDirectFormat(body) == body.data = None
IsWrappedFormat(body) ==
  body.data # None /\ body.access_token = Undefined /\ body.refresh_token = Undefined

PairOfFormat(body) ==
  IF IsDirectFormat(body)
    THEN [at |-> body.access_token, rt |-> body.refresh_token]
    ELSE [at |-> body.data[1].access_token, rt |-> body.data[1].refresh_token]

\* C11: the outcome of login and the pair it stores depend only on the
\* token pair the response carries, not on whether the pair is at the top
\* level or under data, nor on the code field.
C11_SameOutcomeTopLevelOrNested ==
  (/\ LoginAnsweredWithBody
   /\ IsDirectFormat(AnsweredBody) \/ IsWrappedFormat(AnsweredBody)
   /\ Truthy(PairOfFormat(AnsweredBody).at)) =>
    LET pair == PairOfFormat(AnsweredBody) IN
    IF Truthy(pair.rt)
      THEN /\ call["c1"].result = Returned(pair.at)
           /\ currentTokens = [accessToken |-> pair.at, refreshToken |-> pair.rt,
                               expiresAt |-> now + FortyEightHoursMs]
      ELSE /\ call["c1"].result = Thrown(Err("NoAccessToken", "login", <<>>))
           /\ currentTokens = call["c1"].startTokens

C11_Witness ==
  /\ LoginAnsweredWithBody
  /\ IsWrappedFormat(AnsweredBody)
  /\ AnsweredBody.code = CodeOther
  /\ AnsweredBody.data[1].access_token = "at1"
  /\ currentTokens # Null
  /\ currentTokens.accessToken = "at1"

\* C12: when a login response has an access token at the top level, what
\* login stores is the top-level pair, also when data carries a token too;
\* the pair under data is stored only when the top level has no access token.
C12_TopLevelTakesPrecedence ==
  (LoginAnsweredWithBody /\ Truthy(AnsweredBody.access_token)) =>
    /\ call["c1"].result.status = "ok" <=> Truthy(AnsweredBody.refresh_token)
    /\ call["c1"].result.status = "ok" =>
         /\ call["c1"].result = Returned(AnsweredBody.access_token)
         /\ currentTokens.accessToken = AnsweredBody.access_token
         /\ currentTokens.refreshToken = AnsweredBody.refresh_token
    /\ call["c1"].result.status # "ok" => currentTokens = call["c1"].startTokens

C12_Witness ==
  /\ LoginAnsweredWithBody
  /\ AnsweredBody.access_token = "at1"
  /\ AnsweredBody.data # None
  /\ AnsweredBody.data[1].access_token = "at2"
  /\ currentTokens # Null
  /\ currentTokens.accessToken = "at1"

\* C20: a login answered with HTTP 401 fails with the invalid-credentials
\* error; a login answered with a non-success code, no token and no MFA
\* options fails with the login-failed error carrying the backend msg; in both
\* cases the call ends there, with one login request sent.
C20_LoginAuthenticationErrors ==
  /\ (LoginAnswered /\ lastLoginResp[1] = [kind |-> "http_error", status |-> 401]) =>
       call["c1"].result = Thrown(Err("InvalidCredentials", "login", <<>>))
  /\ (/\ LoginAnsweredWithBody
      /\ AnsweredBody.code \notin {CodeNumOne, CodeStrOne}
      /\ NoAccessTokenAnywhere(AnsweredBody)
      /\ MfaOptionsOf(AnsweredBody) = <<>>) =>
       /\ call["c1"].result.status = "error"
       /\ call["c1"].result.error.kind = "LoginFailedCode"
       /\ call["c1"].result.error.by = "login"
       /\ Truthy(AnsweredBody.msg) =>
            call["c1"].result.error.detail = <<AnsweredBody.code, AnsweredBody.msg>>

C20_Witness ==
  /\ LoginAnsweredWithBody
  /\ AnsweredBody.code = CodeOther
  /\ AnsweredBody.msg = "m1"
  /\ call["c1"].result.status = "error"
  /\ call["c1"].result.error.kind = "LoginFailedCode"

C14_RefreshWithoutPairIsLogin ==
  LET r == call["c1"] IN
  (r.op = "refreshToken" /\ r.pc # "idle" /\ r.startTokens = Null) =>
    /\ r.nRefresh = 0
    /\ r.sentRefreshToken = None
    /\ r.refreshSeen = None
    /\ r.pc \in {"awaitLogin", "done"}
    /\ r.nLogin = 0 =>
         /\ r.pc = "done"
         /\ r.result = Thrown(Err("CredentialsNotSet", "login", <<>>))
         /\ currentTokens = Null
    /\ (r.nLogin = 1 /\ r.pc = "done") =>
         LET out == LoginOutcome(lastLoginResp[1], r.startNow) IN
         IF out.ok
           THEN r.result = [status |-> "ok", tokens |-> out.tokens]
                /\ currentTokens = out.tokens
           ELSE r.result = Thrown(out.error) /\ currentTokens = Null

C14_Witness ==
  /\ call["c1"].op = "refreshToken"
  /\ call["c1"].startTokens = Null
  /\ call["c1"].pc = "done"
  /\ call["c1"].result.status = "ok"
  /\ currentTokens # Null

C18_NoRetryOneReport ==
  /\ api.nReq <= 1
  /\ api.nThrown <= 1
  /\ api.nThrown = 1 <=> (api.pc = "done" /\ api.result.status = "error")
  /\ (api.resp # None /\ ApiOutcome(api.inv[1], api.resp[1]).status = "error") =>
       /\ api.pc = "done"
       /\ api.nReq = 1
       /\ api.result = ApiOutcome(api.inv[1], api.resp[1])

C18_Witness ==
  /\ api.pc = "done"
  /\ api.resp # None
  /\ api.resp[1].kind = "http_error"
  /\ api.result.status = "error"
  /\ api.nReq = 1
  /\ api.nThrown = 1

\* the operation failed because the backend answered HTTP 429, to its own
\* request or to the login request of its ensureValidToken call
FailedOn429 ==
  /\ api.pc = "done"
  /\ api.result.status = "error"
  /\ \/ /\ api.resp # None
        /\ api.resp[1].kind = "http_error"
        /\ api.resp[1].status = 429
     \/ /\ api.resp = None
        /\ call["c1"].loginSeen # None
        /\ call["c1"].loginSeen[1].kind = "http_error"
        /\ call["c1"].loginSeen[1].status = 429

\* C19: every failure caused by an HTTP 429 answer is shown to the user as the
\* rate-limit message.
C19_RateLimitMessageOn429 ==
  FailedOn429 => api.text = Some(RateLimitMessage)

\* C30: at the step in which an ensureValidToken call returns normally, the
\* value returned is the accessToken of the pair stored after that step, and
\* that pair's expiresAt minus one hour is later than the call's start time.
C30_ReturnedTokenIsStoredAndFresh ==
  [][\A c \in Callers :
       (/\ call'[c] # call[c]
        /\ call'[c].op = "ensureValidToken"
        /\ call'[c].pc = "done"
        /\ call'[c].result.status = "ok") =>
         /\ currentTokens' # Null
         /\ call'[c].result = Returned(currentTokens'.accessToken)
         /\ currentTokens'.expiresAt - OneHourMs > call'[c].startNow]_vars

C30_Witness ==
  \E c \in Callers :
    /\ call[c].pc = "done"
    /\ call[c].nRefresh = 1
    /\ call[c].nLogin = 0
    /\ call[c].startNow > 0
    /\ currentTokens # Null
    /\ call[c].result = Returned(currentTokens.accessToken)
    /\ currentTokens.expiresAt - OneHourMs > call[c].startNow

\* C29: an API operation sends its endpoint request only after its own
\* ensureValidToken call has returned, with the access token that call
\* returned; when ensureValidToken fails the operation ends with that error
\* and no endpoint request is sent.
C29_TokenBeforeRequest ==
  LET r == call["c1"] IN
  /\ api.pc = "auth" => api.nReq = 0 /\ r.pc \in {"awaitLogin", "awaitRefresh"}
  /\ api.nReq > 0 =>
       /\ r.pc = "done"
       /\ r.result.status = "ok"
       /\ api.sentToken = Some(r.result.value)
  /\ (api.pc # "idle" /\ r.pc = "done" /\ r.result.status = "error") =>
       /\ api.nReq = 0
       /\ api.sentToken = None
       /\ api.pc = "done"
       /\ api.result = Thrown(r.result.error)

C29_Witness ==
  /\ api.pc = "awaitApi"
  /\ api.inv[1].op = "controlLock"
  /\ call["c1"].nRefresh = 1
  /\ call["c1"].result.status = "ok"
  /\ api.sentToken = Some(call["c1"].result.value)

\* the evaluation of helper fn has finished
Evaluated(fn) == pure.fn = fn /\ pure.pc = "done"

\* C28: hashPassword(p) is the digest of the digest of the digest of p, each
\* round taking the previous hexadecimal digest string; the result depends on
\* the input alone.
C28_TripleDigest ==
  Evaluated("hashPassword") =>
    pure.output = Some(Md5Hex(Md5Hex(Md5Hex(pure.input))))

C28_Witness ==
  /\ Evaluated("hashPassword")
  /\ pure.input = <<"p">>
  /\ pure.output = Some(<<"md5(", "md5(", "md5(", "p", ")", ")", ")">>)

\* an integer n limited to lo..hi
Clamped(n, lo, hi) == IF n < lo THEN lo ELSE IF n > hi THEN hi ELSE n

\* the argument of the evaluated helper is an integer
IntegerInput == pure.input % 10 = 0

\* C26: for an integer input, setDeviceBrightness hands on the decimal string
\* of the input limited to 1..100 as the value of the brightness property, and
\* throws nothing itself.
C26_BrightnessClamped ==
  (Evaluated("setDeviceBrightness") /\ IntegerInput) =>
    /\ pure.output[1].pvalue = ToString(Clamped(pure.input \div 10, 1, 100))
    /\ pure.output[1].pid = "P1501"
    /\ ~pure.output[1].threw
    /\ pure.input = 1500 => pure.output[1].pvalue = "100"
    /\ pure.input = 0 => pure.output[1].pvalue = "1"

C26_Witness ==
  /\ Evaluated("setDeviceBrightness")
  /\ pure.input = 1500
  /\ pure.output[1].pvalue = "100"

\* C27: for an integer input, setDeviceColorTemp hands on the decimal string
\* of the input limited to 2700..6500 as the value of the colour-temperature
\* property, and throws nothing itself.
C27_ColorTempClamped ==
  (Evaluated("setDeviceColorTemp") /\ IntegerInput) =>
    /\ pure.output[1].pvalue = ToString(Clamped(pure.input \div 10, 2700, 6500))
    /\ pure.output[1].pid = "P1502"
    /\ ~pure.output[1].threw
    /\ pure.input = 20000 => pure.output[1].pvalue = "2700"

C27_Witness ==
  /\ Evaluated("setDeviceColorTemp")
  /\ pure.input = 20000
  /\ pure.output[1].pvalue = "2700"

\* C22: every parameter object with the same entries as the one signed, in
\* whatever insertion order, has the same signing string; the entries a=1 and
\* z=2 are signed as a=1&z=2.
C22_SignatureIgnoresInsertionOrder ==
  Evaluated("createFordSignature") =>
    LET i == pure.input IN
    /\ \A q \in ParamObjects :
         Entries(q) = Entries(i.params) =>
           SignString(i.method, i.path, q) = pure.output[1].signString
    /\ Entries(i.params) = {<<<<"a">>, <<"1">>>>, <<<<"z">>, <<"2">>>>} =>
         pure.output[1].signString =
           toUpperCase(i.method) \o i.path
             \o <<"a", "=", "1", "&", "z", "=", "2">> \o FORD_APP_SECRET

C22_Witness ==
  /\ Evaluated("createFordSignature")
  /\ pure.input.params = <<<<<<"z">>, <<"2">>>>, <<<<"a">>, <<"1">>>>>>
  /\ pure.input.path = LockControlPath
  /\ pure.output[1].signString =
       <<"P", "O", "S", "T">> \o LockControlPath
         \o <<"a", "=", "1", "&", "z", "=", "2">> \o FORD_APP_SECRET

\* the names of a parameter object in ascending order: the one arrangement of
\* its names in which each name is less than the next
AscendingKeys(params) ==
  LET K == {e[1] : e \in Entries(params)} IN
  CHOOSE ks \in [1..Cardinality(K) -> K] :
    \A a, b \in 1..Cardinality(K) : a < b => StrLess(ks[a], ks[b])

\* the methods given, in upper case
UpperOfMethod(method) ==
  IF method = <<"G", "E", "T">> THEN <<"G", "E", "T">> ELSE <<"P", "O", "S", "T">>

\* C23: the signing string is the method in upper case, the path, the entries
\* as name=value joined by & in ascending order of name with the values as
\* they are, and the shared secret, with nothing in between; the signature is
\* the digest of that string.
C23_SigningStringFormat ==
  Evaluated("createFordSignature") =>
    LET i == pure.input
        ks == AscendingKeys(i.params)
        pairs == [n \in 1..Len(ks) |-> ks[n] \o <<"=">> \o ParamValue(i.params, ks[n])]
        expected == UpperOfMethod(i.method) \o i.path \o Join(pairs, <<"&">>)
                      \o <<"4deekof1ba311c5c33a9cb8e12787e8c">>
    IN
    /\ pure.output[1].signString = expected
    /\ pure.output[1].sign = Md5Hex(expected)

C23_Witness ==
  /\ Evaluated("createFordSignature")
  /\ pure.input.method = <<"p", "o", "s", "t">>
  /\ pure.input.params =
       <<<<<<"z">>, <<"1", "&", "z", "=", "2">>>>, <<<<"a", "b">>, <<"2">>>>,
         <<<<"a">>, <<"1">>>>>>
  /\ pure.output[1].signString =
       <<"P", "O", "S", "T">> \o LockControlPath
         \o <<"a", "=", "1", "&", "a", "b", "=", "2", "&",
              "z", "=", "1", "&", "z", "=", "2">>
         \o FORD_APP_SECRET

\* C24: a parameter object with other entries than the one signed (same
\* method, same path) has another signing string.
C24_DifferentParamsDifferentString ==
  Evaluated("createFordSignature") =>
    \A q \in ParamObjects :
      Entries(q) # Entries(pure.input.params) =>
        SignString(pure.input.method, pure.input.path, q)
          # pure.output[1].signString

\* the entries of a sent request other than its sign entry
SentMinusSign(sent) == SelectSeq(sent, LAMBDA e : e[1] # K_sign)

\* C25: in every lock-control and lock-info request the sign entry is the
\* signature of exactly the other entries sent, and these include access_token
\* with the token ensureValidToken returned to this call, key with the lock
\* application key, and timestamp.
C25_SignedIsSentMinusSign ==
  (api.inv # None /\ api.inv[1].op \in {"controlLock", "getLockInfo"}
     /\ api.nReq > 0) =>
    /\ api.req # None
    /\ LET r == api.req[1]
           others == SentMinusSign(r.sent)
       IN
       /\ \E e \in Entries(r.sent) :
            /\ e[1] = K_sign
            /\ e[2] = Md5Hex(SignString(r.method, r.path, others))
       /\ <<K_access_token, <<call["c1"].result.value>>>> \in Entries(others)
       /\ <<K_key, <<"275965684684dbdaf29a0ed9">>>> \in Entries(others)
       /\ \E e \in Entries(others) : e[1] = K_timestamp

\* C21 as stated: whenever an API operation run by a tool handler has failed,
\* the handler's result is flagged isError and carries handleApiError of that
\* failure.
C21_EveryOperationFailureIsFlagged ==
  (tool.pc = "done" /\ api.pc = "done" /\ api.result.status = "error") =>
    /\ tool.result.status = "result"
    /\ tool.result.isError
    /\ tool.result.text = handleApiError(api.result.error)

\* C21 as amended: a tool handler always ends with a result, never with an
\* error leaving it; whenever a function it awaited threw, the result is
\* flagged isError and its text is handleApiError of that error; a failure of
\* getDeviceProperties inside getDeviceStatus does not reach the handler,
\* which then returns its normal result; the process is never ended while
\* serving tools, only by a missing environment variable at startup.
C21_HandlersAnswerEveryFailure ==
  /\ tool.pc # "idle" => proc = Connected
  /\ proc.state = "exited" =>
       /\ ~EnvComplete(env)
       /\ calls = 0
       /\ tool = NoTool
  /\ tool.pc = "done" =>
       /\ tool.result.status = "result"
       /\ tool.awaited.status = "error" =>
            /\ tool.result.isError
            /\ tool.result.text = handleApiError(tool.awaited.error)
  /\ (/\ tool.pc \notin {"idle", "external"}
      /\ api.pc = "done"
      /\ api.result.status = "error"
      /\ api.inv[1].op # "getDeviceProperties") =>
       /\ tool.pc = "done"
       /\ tool.awaited = api.result
       /\ tool.result.status = "result"
       /\ tool.result.isError
  /\ (/\ tool.pc # "idle"
      /\ api.pc = "done"
      /\ api.result.status = "error"
      /\ api.inv[1].op = "getDeviceProperties") =>
       /\ tool.pc = "done"
       /\ tool.name = "wyze_get_device_status"
       /\ tool.result = ToolSuccess

C21_Witness ==
  /\ tool.pc = "done"
  /\ tool.name = "wyze_unlock"
  /\ api.inv[1].op = "controlLock"
  /\ api.resp # None
  /\ api.resp[1].kind = "http_error"
  /\ api.resp[1].status = 429
  /\ tool.result = [status |-> "result", isError |-> TRUE, text |-> RateLimitMessage]

\* C34: while credentials are unset, a call of login or ensureValidToken (or
\* of refreshToken, which goes through login) has ended at once with the
\* credentials-not-set error, has sent no login and no refresh request, and
\* nothing is stored; and whenever a token pair is stored, credentials are
\* set.
C34_NoCredentialsNoRequestNoPair ==
  /\ currentTokens # Null => credentials # Null
  /\ credentials = Null =>
       /\ currentTokens = Null
       /\ \A c \in Callers :
            call[c].pc # "idle" =>
              /\ call[c].pc = "done"
              /\ call[c].result = Thrown(Err("CredentialsNotSet", "login", <<>>))
              /\ call[c].nLogin = 0
              /\ call[c].nRefresh = 0
              /\ call[c].loginSeen = None
              /\ call[c].refreshSeen = None

C34_Witness ==
  /\ credentials = Null
  /\ currentTokens = Null
  /\ calls = 2
  /\ call["c1"].op = "ensureValidToken"
  /\ call["c1"].pc = "done"
  /\ call["c1"].result = Thrown(Err("CredentialsNotSet", "login", <<>>))
  /\ call["c1"].nLogin = 0

\* the device-control tools: turn on/off, brightness, color temperature,
\* lock, unlock, lock info, run action
ControlTools ==
  {"wyze_turn_on", "wyze_turn_off", "wyze_set_brightness", "wyze_set_color_temp",
   "wyze_lock", "wyze_unlock", "wyze_get_lock_info", "wyze_run_action"}

\* the operations that send a control request
ControlOps == {"setDeviceProperty", "controlLock", "getLockInfo", "runDeviceAction"}

\* C36: in a device-control handler, once findDevice has returned null the
\* handler has ended with the isError not-found result, and the only
\* operation it has run is the device list of the lookup: no set_property,
\* lock control, lock info or run_action operation was started, so no such
\* request was sent.
C36_UnknownDeviceNoControlRequest ==
  (tool.name \in ControlTools /\ tool.device = Some(Null)) =>
    /\ tool.pc = "done"
    /\ tool.result = ToolNotFound
    /\ tool.result.isError
    /\ api.pc = "done"
    /\ api.inv[1].op = "getDeviceList"
    /\ api.inv[1].op \notin ControlOps
    /\ api.nReq = 1

C36_Witness ==
  /\ tool.name = "wyze_unlock"
  /\ tool.device = Some(Null)
  /\ tool.pc = "done"
  /\ tool.result.isError
  /\ api.inv[1].op = "getDeviceList"
  /\ api.result.status = "ok"

\* C37: in wyze_get_device_status, once getDeviceProperties has failed (its
\* token could not be obtained, its request failed, or the answer's code is
\* not a success code), getDeviceStatus has returned the device's info with
\* an empty properties map, and the handler has answered with its normal
\* result.
C37_StatusSurvivesPropertyFailure ==
  (/\ tool.name = "wyze_get_device_status"
   /\ api.pc = "done"
   /\ api.inv[1].op = "getDeviceProperties"
   /\ api.result.status = "error") =>
    /\ tool.pc = "done"
    /\ tool.awaited = DeviceStatus(<<>>)
    /\ tool.result.status = "result"
    /\ ~tool.result.isError

\* the property query fails before any request of its own: the cached token
\* has expired during the lookup and the login is refused
C37_Witness ==
  /\ tool.name = "wyze_get_device_status"
  /\ tool.pc = "done"
  /\ api.inv[1].op = "getDeviceProperties"
  /\ api.nReq = 0
  /\ api.result.status = "error"
  /\ api.result.error.by = "login"
  /\ tool.awaited.properties = <<>>

\* the last device or lock request was answered and the operation failed on
\* that answer
RequestFailed(a) ==
  /\ a.pc = "done"
  /\ a.resp # None
  /\ a.result.status = "error"

\* C33: the step in which a device or lock request fails (HTTP error,
\* transport error or non-success code) leaves the stored token pair as it
\* was; and when the next operation starts after such a failure while the
\* stored token is outside the near-expiry window, it sends no login and no
\* refresh request, leaves the pair as it is and presents the same token
\* again.
C33_FailedRequestKeepsToken ==
  [][/\ (api.pc = "awaitApi" /\ RequestFailed(api')) =>
          currentTokens' = currentTokens
     /\ (/\ RequestFailed(api)
         /\ calls' = calls + 1
         /\ currentTokens # Null
         /\ ~isTokenNearExpiry(currentTokens, now)) =>
          /\ currentTokens' = currentTokens
          /\ call'["c1"].nLogin = 0
          /\ call'["c1"].nRefresh = 0
          /\ api'.pc = "awaitApi"
          /\ api'.sentToken = api.sentToken
          /\ api'.sentToken = Some(currentTokens.accessToken)]_vars

\* a request presented the cached token and was refused with 401; the pair
\* is still stored and still outside the near-expiry window
C33_Witness ==
  /\ RequestFailed(api)
  /\ api.resp[1].kind = "http_error"
  /\ api.resp[1].status = 401
  /\ calls < MaxCalls
  /\ currentTokens # Null
  /\ ~isTokenNearExpiry(currentTokens, now)
  /\ api.sentToken = Some(currentTokens.accessToken)

\* the values derived from the configured password: the password itself and
\* its digests up to the one hashPassword returns
PasswordDerived(creds) == {HashRounds(<<creds.password>>, n) : n \in 0..3}

\* the values a request carries, in its body or query and in its headers
AuthValues(r) == {e[2] : e \in Entries(r.body) \cup Entries(r.headers)}

\* C35: no request that has left the client carries the configured password:
\* a login request's body is email, password and nonce, with
\* hashPassword(password) as its password, and nothing else in it or in its
\* headers is derived from the password; a refresh request and a device or
\* lock request carry no value derived from the password (the password or
\* one of its digests).
C35_PasswordLeavesOnlyHashed ==
  /\ \A c \in Callers : \A i \in DOMAIN call[c].sent :
       LET r == call[c].sent[i] IN
       /\ credentials # Null
       /\ <<credentials.password>> \notin AuthValues(r)
       /\ r.path = "/api/user/login" =>
            /\ [j \in DOMAIN r.body |-> r.body[j][1]]
                 = << <<"email">>, <<"password">>, <<"nonce">> >>
            /\ r.body[2][2] = hashPassword(<<credentials.password>>)
            /\ \A e \in Entries(r.body) \cup Entries(r.headers) :
                 e[2] \in PasswordDerived(credentials) => e = r.body[2]
       /\ r.path # "/api/user/login" =>
            AuthValues(r) \cap PasswordDerived(credentials) = {}
  /\ api.req # None =>
       \A e \in Entries(api.req[1].sent) :
         e[2] \notin PasswordDerived(credentials)

\* a lock request is waiting for its answer, after the call that obtained
\* its token has sent a refresh request and then a login request
C35_Witness ==
  /\ api.pc = "awaitApi"
  /\ api.inv[1].op = "controlLock"
  /\ api.req # None
  /\ Len(call["c1"].sent) = 2
  /\ call["c1"].sent[1].path = "/app/user/refresh_token"
  /\ call["c1"].sent[2].path = "/api/user/login"
  /\ call["c1"].sent[2].body[2] = <<<<"password">>, hashPassword(<<"p">>)>>

\* C31: the stored pair is the one written by the response to the latest
\* issued authentication request among those whose response wrote a pair: no
\* response to an earlier issued request has overwritten it.
C31_StoredPairIsLatestIssued ==
  order.stored = order.latest

\* the network exchanges of a call so far
Exchanges(rec) == rec.nLogin + rec.nRefresh

\* C32: an ensureValidToken call is either not waiting or waiting for the
\* answer to the one request it has in flight; it sends at most two requests,
\* never the same kind twice; and, every request being answered in the end,
\* a call that is waiting ends, with a token or with an error.
C32_CallsEndWithinTwoExchanges ==
  /\ [](\A c \in Callers :
         /\ call[c].pc \in {"idle", "awaitLogin", "awaitRefresh", "done"}
         /\ Exchanges(call[c]) <= 2
         /\ call[c].nLogin <= 1 /\ call[c].nRefresh <= 1
         /\ call[c].pc \in {"awaitLogin", "awaitRefresh"} =>
              Exchanges(call[c]) = Len(call[c].sent)
         /\ call[c].pc = "done" => call[c].result.status \in {"ok", "error"})
  /\ \A c \in Callers :
       (call[c].pc \in {"awaitLogin", "awaitRefresh"}) ~> (call[c].pc = "done")

\* a call that took two exchanges, a refresh answered by a timeout and then
\* a login, and returned a token
C32_Witness ==
  /\ call["c1"].pc = "done"
  /\ Exchanges(call["c1"]) = 2
  /\ call["c1"].refreshSeen # None
  /\ call["c1"].refreshSeen[1].kind = "network"
  /\ call["c1"].result.status = "ok"

====
